---- MODULE Spec2Model ----
(***************************************************************************)
(* Decision Tree Builder (src/src/App.tsx): the indent parser, the         *)
(* connector renderer, the connector importer, the tree flattener and the  *)
(* SVG layout engine, together with the App handlers that drive them.      *)
(*                                                                         *)
(* A JavaScript string is a sequence of one-character strings.  The box    *)
(* drawing characters are written with ASCII stand-ins, each one UTF-16    *)
(* unit long like the character it stands for:                             *)
(*      "V" = U+2502 (vertical bar)     "T" = U+251C (tee)                 *)
(*      "L" = U+2514 (corner)           "H" = U+2500 (horizontal bar)      *)
(*      "." = U+2026 (ellipsis)                                            *)
(***************************************************************************)
EXTENDS Integers, Sequences, FiniteSets, TLC

VARIABLES input, parsed, ascii, flat, layout, charPx, wrap, lang,
          isImportOpen, importText, notified,
          wrapText, maxCharsPerLine, wrapLines, wrapRun, wrapWidthPx, wrapLinesPx,
          history, now, autosavePending, autosaveSetAt, autosaveText, inputSetAt,
          isHistoryOpen,
          zoom, panX, panY, isPanning, panStart, exported

\* A call of wrapTextToLines: its two arguments and the array it returned;
\* wrapRun holds the position and the local variables of a call that is
\* followed statement by statement.  A call of wrapTextToLinesPx on the same
\* text: its width and the array it returned.
wrapVars == <<wrapText, maxCharsPerLine, wrapLines, wrapRun, wrapWidthPx, wrapLinesPx>>

\* history is the array stored under HISTORY_LS_KEY, newest first; now is
\* the reading of Date.now(); autosavePending tells that the timer of the
\* autosave effect is running, autosaveSetAt is the reading of the clock
\* when that timer was last started and autosaveText is the input its
\* callback has closed over; inputSetAt is the reading of the clock when
\* input last took another value; isHistoryOpen is the History dialog.
historyVars == <<history, now, autosavePending, autosaveSetAt, autosaveText,
                 inputSetAt, isHistoryOpen>>

\* zoom is counted in ten-thousandths; panStart is empty for null and holds
\* the record otherwise.
viewVars == <<zoom, panX, panY, isPanning, panStart>>

\* exported holds the image that the handler that ran last has downloaded:
\* it is empty unless that handler was saveGraphPng.
vars == <<input, parsed, ascii, flat, layout, charPx, wrap, lang,
          isImportOpen, importText, notified, wrapVars, historyVars,
          viewVars, exported>>

(***************************************************************************)
(* Strings                                                                 *)
(***************************************************************************)

\* The characters JavaScript's \s and String.prototype.trim treat as white
\* space, as far as the alphabet of the model goes.
IsWs(c) == c \in {" ", "\t", "\n", "\r"}

RECURSIVE Repeat(_, _)
Repeat(s, n) == IF n <= 0 THEN <<>> ELSE s \o Repeat(s, n - 1)

RECURSIVE TrimEnd(_)
TrimEnd(s) ==
  IF s # <<>> /\ IsWs(s[Len(s)]) THEN TrimEnd(SubSeq(s, 1, Len(s) - 1)) ELSE s

RECURSIVE TrimStart(_)
TrimStart(s) == IF s # <<>> /\ IsWs(Head(s)) THEN TrimStart(Tail(s)) ELSE s

Trim(s) == TrimStart(TrimEnd(s))

\* s.slice(from) with a 0-based index.
Slice(s, from) == SubSeq(s, from + 1, Len(s))

StartsWith(s, p) == Len(s) >= Len(p) /\ SubSeq(s, 1, Len(p)) = p

EndsWith(s, p) == Len(s) >= Len(p) /\ SubSeq(s, Len(s) - Len(p) + 1, Len(s)) = p

\* s.indexOf(p): the 0-based index of the first occurrence, -1 when none.
RECURSIVE IndexFrom(_, _, _)
IndexFrom(s, p, i) ==
  IF i + Len(p) > Len(s) THEN -1
  ELSE IF SubSeq(s, i + 1, i + Len(p)) = p THEN i
  ELSE IndexFrom(s, p, i + 1)

IndexOf(s, p) == IndexFrom(s, p, 0)

\* s.split("\n")
RECURSIVE SplitLines(_)
SplitLines(s) ==
  LET i == IndexOf(s, <<"\n">>)
  IN  IF i < 0 THEN <<s>> ELSE <<SubSeq(s, 1, i)>> \o SplitLines(Slice(s, i + 1))

\* lines.join("\n")
RECURSIVE JoinLines(_)
JoinLines(ls) ==
  IF ls = <<>> THEN <<>>
  ELSE IF Len(ls) = 1 THEN ls[1]
  ELSE ls[1] \o <<"\n">> \o JoinLines(Tail(ls))

\* s.replace(/\t/g, by)
RECURSIVE ReplaceTabs(_, _)
ReplaceTabs(s, by) ==
  IF s = <<>> THEN <<>>
  ELSE (IF Head(s) = "\t" THEN by ELSE <<Head(s)>>) \o ReplaceTabs(Tail(s), by)

\* s.replace(/\r\n/g, "\n")
RECURSIVE ReplaceCrLf(_)
ReplaceCrLf(s) ==
  IF s = <<>> THEN <<>>
  ELSE IF Len(s) >= 2 /\ s[1] = "\r" /\ s[2] = "\n" THEN <<"\n">> \o ReplaceCrLf(Slice(s, 2))
  ELSE <<Head(s)>> \o ReplaceCrLf(Tail(s))

\* map((l) => l.replace(/\s+$/g, ""))
TrimEndEach(ls) == [i \in 1..Len(ls) |-> TrimEnd(ls[i])]

RECURSIVE Concat(_)
Concat(ss) == IF ss = <<>> THEN <<>> ELSE Head(ss) \o Concat(Tail(ss))

VBAR == "V"
TEE == <<"T", "H", " ">>
CORNER == <<"L", "H", " ">>

(***************************************************************************)
(* Indent parser                                                           *)
(***************************************************************************)

INDENT_SIZE == 2

\* while (i < s.length && s[i] === " ") i++;
RECURSIVE countLeadingSpacesFrom(_, _)
countLeadingSpacesFrom(s, i) ==
  IF i < Len(s) /\ s[i + 1] = " " THEN countLeadingSpacesFrom(s, i + 1) ELSE i

countLeadingSpaces(s) == countLeadingSpacesFrom(s, 0)

\* parseLines as it would be without the filter that drops blank lines.
parseLinesUnfiltered(in, indentSize) ==
  TrimEndEach(SplitLines(ReplaceTabs(in, Repeat(<<" ">>, indentSize))))

\* The first four statements of parseIndentedTree: tabs expanded, split at
\* line feeds, trailing white space removed, blank lines dropped.
parseLines(in, indentSize) ==
  SelectSeq(TrimEndEach(SplitLines(ReplaceTabs(in, Repeat(<<" ">>, indentSize)))),
            LAMBDA l : Len(Trim(l)) > 0)

\* The loop as it would be if it kept an entry of the line's own level.
RECURSIVE popStackKeepingEqual(_, _)
popStackKeepingEqual(stack, level) ==
  IF stack # <<>> /\ stack[Len(stack)].level > level
  THEN popStackKeepingEqual(SubSeq(stack, 1, Len(stack) - 1), level)
  ELSE stack

\* while (stack.length && stack[stack.length - 1].level >= level) stack.pop();
RECURSIVE popStack(_, _)
popStack(stack, level) ==
  IF stack # <<>> /\ stack[Len(stack)].level >= level
  THEN popStack(SubSeq(stack, 1, Len(stack) - 1), level)
  ELSE stack

\* parseStep as it would be if every skipped level were filled with a node
\* of empty text.
parseStepFilled(st, raw, indentSize) ==
  LET lead == countLeadingSpaces(raw)
      level == lead \div indentSize
      text == Trim(raw)
      stack == popStack(st.stack, level)
      top == IF stack # <<>> THEN stack[Len(stack)] ELSE [level |-> -1, node |-> 1]
      skipped == level > top.level + 1
      fillRef == Len(st.heap) + 1
      filledHeap == IF skipped
                    THEN Append([st.heap EXCEPT ![top.node].children = Append(@, fillRef)],
                                [text |-> <<>>, children |-> <<>>])
                    ELSE st.heap
      filledStack == IF skipped
                     THEN Append(stack, [level |-> level - 1, node |-> fillRef])
                     ELSE stack
      parent == IF filledStack # <<>> THEN filledStack[Len(filledStack)].node ELSE 1
      ref == Len(filledHeap) + 1
      heap == Append([filledHeap EXCEPT ![parent].children = Append(@, ref)],
                     [text |-> text, children |-> <<>>])
  IN  [heap |-> heap, stack |-> Append(filledStack, [level |-> level, node |-> ref])]

\* parseStep as it would be if the node were put in front of its parent's
\* children.
parseStepUnshifting(st, raw, indentSize) ==
  LET lead == countLeadingSpaces(raw)
      level == lead \div indentSize
      text == Trim(raw)
      stack == popStack(st.stack, level)
      parent == IF stack # <<>> THEN stack[Len(stack)].node ELSE 1
      ref == Len(st.heap) + 1
      heap == Append([st.heap EXCEPT ![parent].children = <<ref>> \o @],
                     [text |-> text, children |-> <<>>])
  IN  [heap |-> heap, stack |-> Append(stack, [level |-> level, node |-> ref])]

\* One iteration of the loop over the lines.  Nodes are objects shared by
\* reference between the stack and their parent's children array: heap[i] is
\* the object with reference i, and reference 1 is the virtual root.
parseStep(st, raw, indentSize) ==
  LET lead == countLeadingSpaces(raw)
      level == lead \div indentSize
      text == Trim(raw)
      stack == popStack(st.stack, level)
      parent == IF stack # <<>> THEN stack[Len(stack)].node ELSE 1
      ref == Len(st.heap) + 1
      heap == Append([st.heap EXCEPT ![parent].children = Append(@, ref)],
                     [text |-> text, children |-> <<>>])
  IN  [heap |-> heap, stack |-> Append(stack, [level |-> level, node |-> ref])]

RECURSIVE parseLoop(_, _, _)
parseLoop(st, lines, indentSize) ==
  IF lines = <<>> THEN st
  ELSE parseLoop(parseStep(st, Head(lines), indentSize), Tail(lines), indentSize)

\* The Node object behind a reference, with its children resolved.
RECURSIVE resolveNode(_, _)
resolveNode(heap, ref) ==
  [text |-> heap[ref].text,
   children |-> [i \in 1..Len(heap[ref].children) |-> resolveNode(heap, heap[ref].children[i])]]

parseIndentedTree(in, indentSize) ==
  LET root == [text |-> <<"_", "_", "R", "O", "O", "T", "_", "_">>, children |-> <<>>]
      st0 == [heap |-> <<root>>, stack |-> <<[level |-> -1, node |-> 1]>>]
      st == parseLoop(st0, parseLines(in, indentSize), indentSize)
  IN  resolveNode(st.heap, 1).children

(***************************************************************************)
(* Connector renderer                                                      *)
(***************************************************************************)

RECURSIVE render(_, _, _)
render(node, prefix, isLast) ==
  LET connector == IF isLast THEN CORNER ELSE TEE
      first == <<prefix \o connector \o node.text>>
      n == Len(node.children)
      childPrefix == prefix \o (IF isLast THEN <<" ", " ", " ">> ELSE <<VBAR, " ", " ">>)
      spacer == childPrefix \o <<VBAR>>
  IN  IF n = 0 THEN first
      ELSE first \o <<spacer>> \o
           Concat([idx \in 1..n |->
                     render(node.children[idx], childPrefix, idx = n)
                     \o (IF idx # n THEN <<spacer>> ELSE <<>>)])

\* The body of nodes.forEach((root, idx) => ...).
renderRoot(root, isLastRoot) ==
  LET n == Len(root.children)
  IN  <<root.text>>
      \o (IF n # 0
          THEN <<(<<VBAR>>)>> \o Concat([cidx \in 1..n |-> render(root.children[cidx], <<>>, cidx = n)])
          ELSE <<>>)
      \o (IF ~isLastRoot THEN << <<>> >> ELSE <<>>)

renderAsciiLines(nodes) ==
  Concat([idx \in 1..Len(nodes) |-> renderRoot(nodes[idx], idx = Len(nodes))])

renderAsciiTree(nodes) == JoinLines(renderAsciiLines(nodes))

(***************************************************************************)
(* Connector importer                                                      *)
(***************************************************************************)

CODE_OPEN == <<"{", "c", "o", "d", "e">>
CODE_FENCE == <<"{", "c", "o", "d", "e", "}">>

\* raw.replace(/^\s*\{code(?::[^}]*)?\}\s*\n?/i, ""): at the start of the
\* text, white space, "{code", an optional ":" with any characters other
\* than "}", then "}" and all the white space that follows (the greedy \s*
\* also takes the line feed, so \n? matches nothing).  Without a match the
\* text is returned as it is.
stripOpeningFence(raw) ==
  LET s == TrimStart(raw)
      afterOpen == Slice(s, Len(CODE_OPEN))
      close == IndexOf(afterOpen, <<"}">>)
  IN  IF ~StartsWith(s, CODE_OPEN) \/ afterOpen = <<>> THEN raw
      ELSE IF Head(afterOpen) = "}" THEN TrimStart(Tail(afterOpen))
      ELSE IF Head(afterOpen) = ":" /\ close >= 0 THEN TrimStart(Slice(afterOpen, close + 1))
      ELSE raw

\* s.replace(/\n?\s*\{code\}\s*$/i, ""): the match is "{code}" followed only
\* by white space up to the end of the text, together with the whole run of
\* white space before it (the leftmost match starts where that run starts).
stripClosingFence(s) ==
  LET t == TrimEnd(s)
  IN  IF EndsWith(t, CODE_FENCE) THEN TrimEnd(SubSeq(t, 1, Len(t) - Len(CODE_FENCE))) ELSE s

\* /^[│\s]+$/.test(trimmed)
isConnectorOnly(trimmed) ==
  /\ trimmed # <<>>
  /\ \A i \in 1..Len(trimmed) : trimmed[i] = VBAR \/ IsWs(trimmed[i])

\* The body of the loop over the lines: the lines it pushes onto out.
importLine(line, indentSize) ==
  LET trimmed == Trim(line)
      idxA == IndexOf(line, TEE)
      idxB == IndexOf(line, CORNER)
      idx == IF idxA >= 0 THEN idxA ELSE idxB
      prefix == SubSeq(line, 1, idx)
      text == Trim(Slice(line, idx + 3))
      lvl == (Len(prefix) \div 3) + 1
      level == IF lvl > 0 THEN lvl ELSE 0
  IN  IF Len(trimmed) = 0 THEN << <<>> >>
      ELSE IF isConnectorOnly(trimmed) THEN <<>>
      ELSE IF idx < 0 THEN <<trimmed>>
      ELSE <<Repeat(<<" ">>, level * indentSize) \o text>>

\* while (out.length && out[out.length - 1].trim() === "") out.pop();
RECURSIVE popBlankTail(_)
popBlankTail(out) ==
  IF out # <<>> /\ Trim(out[Len(out)]) = <<>>
  THEN popBlankTail(SubSeq(out, 1, Len(out) - 1))
  ELSE out

importJiraToIndented(raw, indentSize) ==
  LET withoutCode == stripClosingFence(stripOpeningFence(raw))
      lines == TrimEndEach(SplitLines(ReplaceCrLf(withoutCode)))
      out == Concat([i \in 1..Len(lines) |-> importLine(lines[i], indentSize)])
  IN  JoinLines(popBlankTail(out))

\* `{code:${language}}\n${code}\n{code}`
wrapForJira(code, language) ==
  CODE_OPEN \o <<":">> \o language \o <<"}", "\n">> \o code \o <<"\n">> \o CODE_FENCE

(***************************************************************************)
(* Tree flattener                                                          *)
(***************************************************************************)

\* parentId: number | null.  Ids start at 1, so 0 stands for null.
NULL == 0

\* walk(node, depth, parentId) with the counter id and the array flat as they
\* stand on entry: the record of both after the call returns.
RECURSIVE walk(_, _, _, _)
RECURSIVE walkChildren(_, _, _, _, _)
\* walk as it would be if it handed its own parentId on to its children.
walkHandingParentOn(st, node, depth, parentId) ==
  LET myId == st.id
      entry == [id |-> myId, text |-> node.text, depth |-> depth,
                parentId |-> parentId, childrenIds |-> <<>>]
      st1 == [id |-> st.id + 1, flat |-> Append(st.flat, entry)]
  IN  walkChildren(st1, node.children, depth + 1, parentId, Len(st1.flat))

walk(st, node, depth, parentId) ==
  LET myId == st.id
      entry == [id |-> myId, text |-> node.text, depth |-> depth,
                parentId |-> parentId, childrenIds |-> <<>>]
      st1 == [id |-> st.id + 1, flat |-> Append(st.flat, entry)]
  IN  walkChildren(st1, node.children, depth + 1, myId, Len(st1.flat))

\* for (const child of node.children) { ...; entry.childrenIds.push(childId) }
\* where entry is the object at position pos of flat.
walkChildren(st, children, depth, myId, pos) ==
  IF children = <<>> THEN st
  ELSE LET childId == st.id
           st1 == walk(st, Head(children), depth, myId)
           st2 == [st1 EXCEPT !.flat[pos].childrenIds = Append(@, childId)]
       IN  walkChildren(st2, Tail(children), depth, myId, pos)

RECURSIVE walkRoots(_, _)
\* The loop over the roots as it would be if each root started again at id 1.
walkRootsRestarting(st, roots) ==
  IF roots = <<>> THEN st
  ELSE walkRoots(walk([st EXCEPT !.id = 1], Head(roots), 0, NULL), Tail(roots))

walkRoots(st, roots) ==
  IF roots = <<>> THEN st ELSE walkRoots(walk(st, Head(roots), 0, NULL), Tail(roots))

flattenTree(roots) == walkRoots([id |-> 1, flat |-> <<>>], roots).flat

(***************************************************************************)
(* Numbers                                                                 *)
(*                                                                         *)
(* A JavaScript number is kept as an exact fraction n/d in lowest terms,   *)
(* d > 0, so that means and halves are exact; Infinity is 1/0, -Infinity   *)
(* is -1/0 and NaN is 0/0, with the arithmetic IEEE 754 gives them.        *)
(***************************************************************************)

RECURSIVE Gcd(_, _)
Gcd(a, b) == IF b = 0 THEN a ELSE Gcd(b, a % b)

Abs(k) == IF k < 0 THEN -k ELSE k

Sign(k) == IF k > 0 THEN 1 ELSE IF k < 0 THEN -1 ELSE 0

Frac(n, d) ==
  IF d = 0 THEN [n |-> Sign(n), d |-> 0]
  ELSE LET g == Gcd(Abs(n), Abs(d))
       IN  [n |-> Sign(d) * (n \div g), d |-> Abs(d) \div g]

R(k) == [n |-> k, d |-> 1]

PosInf == [n |-> 1, d |-> 0]
NegInf == [n |-> -1, d |-> 0]
NaN == [n |-> 0, d |-> 0]

IsNaN(a) == a.d = 0 /\ a.n = 0
IsFinite(a) == a.d # 0

RAdd(a, b) ==
  IF IsNaN(a) \/ IsNaN(b) THEN NaN
  ELSE IF a.d = 0 /\ b.d = 0 THEN (IF a.n = b.n THEN a ELSE NaN)
  ELSE IF a.d = 0 THEN a
  ELSE IF b.d = 0 THEN b
  ELSE Frac(a.n * b.d + b.n * a.d, a.d * b.d)

RNeg(a) == [n |-> -a.n, d |-> a.d]

RSub(a, b) == RAdd(a, RNeg(b))

RMul(a, b) == Frac(a.n * b.n, a.d * b.d)

\* a / b; a division by zero gives an infinity or NaN, as in JavaScript.
RDiv(a, b) ==
  IF IsNaN(a) \/ IsNaN(b) THEN NaN
  ELSE IF a.d = 0 /\ b.d = 0 THEN NaN
  ELSE IF b.d = 0 THEN R(0)
  ELSE Frac(a.n * b.d * (IF b.n < 0 THEN -1 ELSE 1), a.d * Abs(b.n))

RLt(a, b) ==
  IF IsNaN(a) \/ IsNaN(b) THEN FALSE
  ELSE IF a.d = 0 /\ b.d = 0 THEN a.n < b.n
  ELSE a.n * b.d < b.n * a.d

RLe(a, b) == ~IsNaN(a) /\ ~IsNaN(b) /\ ~RLt(b, a)

\* Math.max and Math.min of two numbers.
RMax(a, b) == IF IsNaN(a) \/ IsNaN(b) THEN NaN ELSE IF RLt(a, b) THEN b ELSE a
RMin(a, b) == IF IsNaN(a) \/ IsNaN(b) THEN NaN ELSE IF RLt(b, a) THEN b ELSE a

\* Math.max(...xs) and Math.min(...xs): -Infinity and Infinity for no argument.
RECURSIVE MathMax(_)
MathMax(xs) == IF xs = <<>> THEN NegInf ELSE RMax(Head(xs), MathMax(Tail(xs)))

RECURSIVE MathMin(_)
MathMin(xs) == IF xs = <<>> THEN PosInf ELSE RMin(Head(xs), MathMin(Tail(xs)))

\* Math.floor and Math.ceil.
MathFloor(a) == IF a.d = 0 THEN a ELSE R(a.n \div a.d)
MathCeil(a) == IF a.d = 0 THEN a ELSE R(-((-a.n) \div a.d))

\* The truth value of a number in a condition: 0 and NaN are false.
Truthy(a) == ~IsNaN(a) /\ a.n # 0

\* xs.reduce((a, b) => a + b, 0)
RECURSIVE SumSeq(_)
SumSeq(xs) == IF xs = <<>> THEN R(0) ELSE RAdd(SumSeq(SubSeq(xs, 1, Len(xs) - 1)), xs[Len(xs)])

(***************************************************************************)
(* Text wrapper                                                            *)
(***************************************************************************)

\* text.replace(/\s+/g, " ").trim()
RECURSIVE collapseWs(_)
collapseWs(s) ==
  IF s = <<>> THEN <<>>
  ELSE IF IsWs(Head(s)) THEN <<" ">> \o collapseWs(TrimStart(s))
  ELSE <<Head(s)>> \o collapseWs(Tail(s))

cleanText(text) == Trim(collapseWs(text))

\* clean.split(" ")
RECURSIVE SplitSpaces(_)
SplitSpaces(s) ==
  LET i == IndexOf(s, <<" ">>)
  IN  IF i < 0 THEN <<s>> ELSE <<SubSeq(s, 1, i)>> \o SplitSpaces(Slice(s, i + 1))

\* measureTextPx: the platform's canvas measures the text in the monospace
\* font of the diagram; charPx is the advance of one character in it.
measureTextPx(text, advance) == Len(text) * advance

IsSoftBreak(c) == c \in {"-", "/", ":", "+"}

\* word.split(/([\-\/:\+])/g).filter((p) => p.length > 0)
RECURSIVE splitKeepDelims(_, _)
splitKeepDelims(word, acc) ==
  IF word = <<>> THEN (IF acc = <<>> THEN <<>> ELSE <<acc>>)
  ELSE IF IsSoftBreak(Head(word))
       THEN (IF acc = <<>> THEN <<>> ELSE <<acc>>) \o << <<Head(word)>> >> \o splitKeepDelims(Tail(word), <<>>)
       ELSE splitKeepDelims(Tail(word), Append(acc, Head(word)))

\* The loop of splitWordWithSoftBreaks that attaches each delimiter to the
\* part on its left.
RECURSIVE attachDelims(_, _)
attachDelims(parts, out) ==
  IF parts = <<>> THEN out
  ELSE LET p == Head(parts)
       IN  IF Len(p) = 1 /\ IsSoftBreak(p[1])
           THEN (IF out = <<>> THEN attachDelims(Tail(parts), <<p>>)
                 ELSE attachDelims(Tail(parts), [out EXCEPT ![Len(out)] = @ \o p]))
           ELSE attachDelims(Tail(parts), Append(out, p))

\* The split as it would be if the delimiters were not kept.
splitWordDroppingDelims(word) ==
  SelectSeq(splitKeepDelims(word, <<>>), LAMBDA p : ~(Len(p) = 1 /\ IsSoftBreak(p[1])))

splitWordWithSoftBreaks(word) == attachDelims(splitKeepDelims(word, <<>>), <<>>)

\* push(): w is the record of the closure's variables lines and current.
pushLine(w) ==
  LET t == Trim(w.current)
  IN  [lines |-> IF Len(t) > 0 THEN Append(w.lines, t) ELSE w.lines, current |-> <<>>]

\* for (const ch of token) { ... }: the record of lines and chunk.
RECURSIVE splitByChars(_, _, _, _)
splitByChars(c, token, maxWidthPx, advance) ==
  IF token = <<>> THEN c
  ELSE LET next == Append(c.chunk, Head(token))
       IN  IF measureTextPx(next, advance) <= maxWidthPx
           THEN splitByChars([c EXCEPT !.chunk = next], Tail(token), maxWidthPx, advance)
           ELSE splitByChars([lines |-> IF Len(c.chunk) > 0 THEN Append(c.lines, c.chunk) ELSE c.lines,
                              chunk |-> <<Head(token)>>],
                             Tail(token), maxWidthPx, advance)

pushToken(w, token, withLeadingSpace, maxWidthPx, advance) ==
  LET prefixed == IF withLeadingSpace /\ Len(w.current) > 0 THEN <<" ">> \o token ELSE token
      candidate == IF w.current # <<>> THEN w.current \o prefixed ELSE token
      wrapped == IF Len(Trim(w.current)) > 0 THEN pushLine(w) ELSE w
      c == splitByChars([lines |-> wrapped.lines, chunk |-> <<>>], token, maxWidthPx, advance)
  IN  IF measureTextPx(candidate, advance) <= maxWidthPx THEN [w EXCEPT !.current = candidate]
      ELSE IF Len(Trim(w.current)) > 0 /\ measureTextPx(token, advance) <= maxWidthPx
      THEN [wrapped EXCEPT !.current = token]
      ELSE [lines |-> IF Len(c.chunk) > 0 /\ Len(Trim(wrapped.current)) = 0
                      THEN Append(c.lines, c.chunk) ELSE c.lines,
            current |-> <<>>]

RECURSIVE pushParts(_, _, _, _, _)
pushParts(w, parts, first, maxWidthPx, advance) ==
  IF parts = <<>> THEN w
  ELSE pushParts(pushToken(w, Head(parts), first, maxWidthPx, advance),
                 Tail(parts), FALSE, maxWidthPx, advance)

RECURSIVE pushWords(_, _, _, _)
pushWords(w, words, maxWidthPx, advance) ==
  IF words = <<>> THEN w
  ELSE pushWords(pushParts(w, splitWordWithSoftBreaks(Head(words)), TRUE, maxWidthPx, advance),
                 Tail(words), maxWidthPx, advance)

wrapTextToLinesPx(text, maxWidthPx, advance) ==
  LET clean == cleanText(text)
      w == pushLine(pushWords([lines |-> <<>>, current |-> <<>>], SplitSpaces(clean), maxWidthPx, advance))
  IN  IF clean = <<>> THEN << <<>> >>
      ELSE IF Len(w.lines) > 0 THEN w.lines ELSE <<clean>>

\* pushCurrent(): w is the record of the variables lines and current.
pushCurrent(w) ==
  [lines |-> IF Len(Trim(w.current)) > 0 THEN Append(w.lines, Trim(w.current)) ELSE w.lines,
   current |-> <<>>]

\* The call of wrapTextToLines has not been entered.
IdleRun ==
  [pc |-> "idle", words |-> <<>>, current |-> <<>>, chunk |-> <<>>, lines |-> <<>>]

\* The rest of the chunk as it would be if the slice began one place early.
restOfChunkFromBefore(chunk, maxChars) == Slice(chunk, maxChars - 1)

\* chunk = chunk.slice(maxCharsPerLine)
restOfChunk(chunk, maxChars) == Slice(chunk, maxChars)

\* The hard split as it would be if the word were pushed whole.
hardSplitWhole(chunk, maxChars) == <<chunk>>

\* while (chunk.length > maxCharsPerLine) { ... } if (chunk.length) lines.push(chunk)
RECURSIVE hardSplit(_, _)
hardSplit(chunk, maxChars) ==
  IF Len(chunk) > maxChars
  THEN <<SubSeq(chunk, 1, maxChars)>> \o hardSplit(Slice(chunk, maxChars), maxChars)
  ELSE IF Len(chunk) > 0 THEN <<chunk>> ELSE <<>>

\* The body of the loop over the words.
wrapWord(w, word, maxChars) ==
  LET candidate == IF w.current # <<>> THEN w.current \o <<" ">> \o word ELSE word
  IN  IF Len(word) > maxChars
      THEN [lines |-> pushCurrent(w).lines \o hardSplit(word, maxChars), current |-> <<>>]
      ELSE IF Len(candidate) <= maxChars THEN [w EXCEPT !.current = candidate]
      ELSE [lines |-> pushCurrent(w).lines, current |-> word]

RECURSIVE wrapWords(_, _, _)
wrapWords(w, words, maxChars) ==
  IF words = <<>> THEN w
  ELSE wrapWords(wrapWord(w, Head(words), maxChars), Tail(words), maxChars)

wrapTextToLines(text, maxChars) ==
  LET clean == cleanText(text)
      w == pushCurrent(wrapWords([lines |-> <<>>, current |-> <<>>], SplitSpaces(clean), maxChars))
  IN  IF clean = <<>> THEN << <<>> >>
      ELSE IF Len(w.lines) > 0 THEN w.lines ELSE <<clean>>

(***************************************************************************)
(* Layout engine                                                           *)
(***************************************************************************)

MIN_NODE_W == 120
MAX_NODE_W == 210
PADDING_X == 12
PADDING_Y == 10
LINE_H == 16
MAX_LINES == 7
GAP_X == 54
GAP_Y == 50
MARGIN == 20
MIN_CANVAS_W == 900
MIN_CANVAS_H == 600
SLOT_W == MAX_NODE_W

IntMax(a, b) == IF a >= b THEN a ELSE b
IntMin(a, b) == IF a <= b THEN a ELSE b

clampW(w) == IntMax(MIN_NODE_W, IntMin(MAX_NODE_W, w))

ELLIPSIS == <<" ", ".">>

\* The cap as it would be if it kept every line.
capLinesKeepingAll(lines) == lines

\* The cap as it would be if it cut the lines without marking the last.
capLinesUnmarked(lines) ==
  IF Len(lines) > MAX_LINES THEN SubSeq(lines, 1, MAX_LINES) ELSE lines

\* if (lines.length > MAX_LINES) lines = [...lines.slice(0, MAX_LINES - 1), lines[MAX_LINES - 1] + " …"]
capLines(lines) ==
  IF Len(lines) > MAX_LINES
  THEN Append(SubSeq(lines, 1, MAX_LINES - 1), lines[MAX_LINES] \o ELLIPSIS)
  ELSE lines

\* The body of the sizing loop for one node: its lines, width and height.
sizeNode(n, advance) ==
  LET clean == cleanText(n.text)
      oneLineW == clampW(measureTextPx(clean, advance) + PADDING_X * 2)
      w == oneLineW
      innerW == IntMax(40, w - PADDING_X * 2)
      lines0 == capLines(wrapTextToLinesPx(clean, innerW, advance))
      needsWrap == measureTextPx(clean, advance) + PADDING_X * 2 > MAX_NODE_W
      finalW == IF needsWrap THEN MAX_NODE_W ELSE w
      finalInnerW == IntMax(40, finalW - PADDING_X * 2)
      lines == IF needsWrap THEN capLines(wrapTextToLinesPx(clean, finalInnerW, advance)) ELSE lines0
  IN  [lines |-> lines, w |-> finalW, h |-> PADDING_Y * 2 + Len(lines) * LINE_H + 8]

\* The position in flat of the node with that id (flattenTree gives every
\* node its own id, so the maps keyed by id hold one entry per node).
indexOfId(fl, id) == CHOOSE i \in 1..Len(fl) : fl[i].id = id

\* byId.get(id)
byId(fl, id) == fl[indexOfId(fl, id)]

isLeaf(fl, id) == Len(byId(fl, id).childrenIds) = 0

\* assignLeaves(id) and ids.forEach(assignLeaves): st is the record of
\* leafCursor and the map leafX.
RECURSIVE assignLeaves(_, _, _)
RECURSIVE assignLeavesEach(_, _, _)
\* assignLeaves as it would be if a node with children took a unit as well.
assignLeavesCountingParents(st, fl, id) ==
  IF isLeaf(fl, id)
  THEN [leafCursor |-> st.leafCursor + 1, leafX |-> (id :> st.leafCursor) @@ st.leafX]
  ELSE LET r == assignLeavesEach(st, fl, byId(fl, id).childrenIds)
       IN  [r EXCEPT !.leafCursor = @ + 1]

assignLeaves(st, fl, id) ==
  IF isLeaf(fl, id)
  THEN [leafCursor |-> st.leafCursor + 1, leafX |-> (id :> st.leafCursor) @@ st.leafX]
  ELSE assignLeavesEach(st, fl, byId(fl, id).childrenIds)

\* ids.forEach(assignLeaves) as it would be if it went from the last id to
\* the first.
assignLeavesEachReversed(st, fl, ids) ==
  IF ids = <<>> THEN st
  ELSE assignLeavesEach(assignLeaves(st, fl, ids[Len(ids)]), fl, SubSeq(ids, 1, Len(ids) - 1))

assignLeavesEach(st, fl, ids) ==
  IF ids = <<>> THEN st ELSE assignLeavesEach(assignLeaves(st, fl, Head(ids)), fl, Tail(ids))

\* computeX(id) and ids.forEach(computeX): xUnit is the map being filled.
RECURSIVE computeX(_, _, _, _)
RECURSIVE computeXEach(_, _, _, _)
\* computeX as it would be if a parent took the unit of its first child.
computeXFirstChild(xUnit, fl, leafX, id) ==
  LET n == byId(fl, id)
      xu == computeXEach(xUnit, fl, leafX, n.childrenIds)
  IN  IF isLeaf(fl, id) THEN (id :> R(leafX[id])) @@ xu
      ELSE (id :> xu[n.childrenIds[1]]) @@ xu

computeX(xUnit, fl, leafX, id) ==
  LET n == byId(fl, id)
      xu == computeXEach(xUnit, fl, leafX, n.childrenIds)
      xs == [i \in 1..Len(n.childrenIds) |-> xu[n.childrenIds[i]]]
  IN  IF isLeaf(fl, id) THEN (id :> R(leafX[id])) @@ xu
      ELSE (id :> RDiv(SumSeq(xs), R(Len(xs)))) @@ xu

computeXEach(xUnit, fl, leafX, ids) ==
  IF ids = <<>> THEN xUnit
  ELSE computeXEach(computeX(xUnit, fl, leafX, Head(ids)), fl, leafX, Tail(ids))

rootIds(fl) ==
  LET roots == SelectSeq(fl, LAMBDA n : n.parentId = NULL)
  IN  [i \in 1..Len(roots) |-> roots[i].id]

EmptyMap == [x \in {} |-> 0]

leafXOf(fl) == assignLeavesEach([leafCursor |-> 0, leafX |-> EmptyMap], fl, rootIds(fl)).leafX

xUnitOf(fl) == computeXEach(EmptyMap, fl, leafXOf(fl), rootIds(fl))

\* Math.max(0, ...flat.map((n) => n.depth))
RECURSIVE maxDepthOf(_)
maxDepthOf(fl) == IF fl = <<>> THEN 0 ELSE IntMax(fl[1].depth, maxDepthOf(Tail(fl)))

\* maxHPerDepth[d]: 0, raised to the height of every node of depth d.
RECURSIVE maxHAt(_, _, _)
maxHAt(fl, size, d) ==
  IF fl = <<>> THEN 0
  ELSE LET rest == maxHAt(Tail(fl), Tail(size), d)
       IN  IF fl[1].depth = d THEN IntMax(size[1].h, rest) ELSE rest

\* yTopByDepth, indexed by depth: accY starts at 30 and grows by
\* maxHPerDepth[d] + GAP_Y.
RECURSIVE yTopFrom(_, _, _, _, _)
yTopFrom(fl, size, d, maxDepth, accY) ==
  IF d > maxDepth THEN EmptyMap
  ELSE (d :> accY) @@ yTopFrom(fl, size, d + 1, maxDepth, accY + maxHAt(fl, size, d) + GAP_Y)

\* pxX as it would be with a slot as wide as the narrowest node.
pxXNarrowSlot(u) == RAdd(R(30), RMul(u, R(MIN_NODE_W + GAP_X)))

pxX(u) == RAdd(R(30), RMul(u, R(SLOT_W + GAP_X)))

\* The first value of positioned: flat.map((n) => ({ ...n, x, y, w, h, lines })).
placeNodes(fl, size, xUnit, yTopByDepth) ==
  [i \in 1..Len(fl) |->
     LET n == fl[i]
         sz == size[indexOfId(fl, n.id)]
         cx == pxX(xUnit[n.id])
     IN  [id |-> n.id, text |-> n.text, depth |-> n.depth, parentId |-> n.parentId,
          childrenIds |-> n.childrenIds,
          x |-> RSub(cx, RDiv(R(sz.w), R(2))),
          y |-> R(yTopByDepth[n.depth]),
          w |-> R(sz.w),
          h |-> R(sz.h),
          lines |-> sz.lines]]

shiftNodes(ps, dx, dy) ==
  [i \in 1..Len(ps) |-> [ps[i] EXCEPT !.x = RAdd(@, dx), !.y = RAdd(@, dy)]]

xsOf(ps) == [i \in 1..Len(ps) |-> ps[i].x]
ysOf(ps) == [i \in 1..Len(ps) |-> ps[i].y]
rightsOf(ps) == [i \in 1..Len(ps) |-> RAdd(ps[i].x, ps[i].w)]
bottomsOf(ps) == [i \in 1..Len(ps) |-> RAdd(ps[i].y, ps[i].h)]

\* The shift that keeps the drawing MARGIN away from the origin.
normalise(ps) ==
  LET minX == MathMin(xsOf(ps))
      minY == MathMin(ysOf(ps))
      dx == IF RLt(minX, R(MARGIN)) THEN RSub(R(MARGIN), minX) ELSE R(0)
      dy == IF RLt(minY, R(MARGIN)) THEN RSub(R(MARGIN), minY) ELSE R(0)
  IN  IF Truthy(dx) \/ Truthy(dy) THEN shiftNodes(ps, dx, dy) ELSE ps

\* dxCenter: the shift that centres the content within the canvas.
dxCenterOf(ps) ==
  LET contentMinX == MathMin(xsOf(ps))
      contentMaxX == MathMax(rightsOf(ps))
      contentWidth == RSub(contentMaxX, contentMinX)
      canvasWidth == RAdd(RMax(contentMaxX, R(MIN_CANVAS_W)), R(MARGIN))
      desiredMinX == RMax(R(MARGIN), RDiv(RSub(canvasWidth, contentWidth), R(2)))
  IN  RSub(desiredMinX, contentMinX)

centre(ps) ==
  LET dxCenter == dxCenterOf(ps)
  IN  IF Truthy(dxCenter) THEN shiftNodes(ps, dxCenter, R(0)) ELSE ps

\* layoutResult as it would be without the floor of MIN_CANVAS_W and
\* MIN_CANVAS_H.
layoutResultUnfloored(positioned) ==
  [positioned |-> positioned,
   width |-> RAdd(MathMax(rightsOf(positioned)), R(MARGIN)),
   height |-> RAdd(MathMax(bottomsOf(positioned)), R(MARGIN))]

\* The result as it would be if the canvas ended at its rightmost and lowest
\* point, without a margin.
layoutResultWithoutMargin(positioned) ==
  [positioned |-> positioned,
   width |-> MathMax(rightsOf(positioned) \o <<R(MIN_CANVAS_W)>>),
   height |-> MathMax(bottomsOf(positioned) \o <<R(MIN_CANVAS_H)>>)]

\* The result without its consts field, which repeats the constants above.
layoutResult(positioned) ==
  [positioned |-> positioned,
   width |-> RAdd(MathMax(rightsOf(positioned) \o <<R(MIN_CANVAS_W)>>), R(MARGIN)),
   height |-> RAdd(MathMax(bottomsOf(positioned) \o <<R(MIN_CANVAS_H)>>), R(MARGIN))]

\* positioned as first computed, before the two shifts.
placedOf(fl, advance) ==
  LET size == [i \in 1..Len(fl) |-> sizeNode(fl[i], advance)]
      yTopByDepth == yTopFrom(fl, size, 0, maxDepthOf(fl), 30)
  IN  placeNodes(fl, size, xUnitOf(fl), yTopByDepth)

layoutTreeForSvg(fl, advance) == layoutResult(centre(normalise(placedOf(fl, advance))))

(***************************************************************************)
(* History                                                                 *)
(***************************************************************************)

\* The template the editor starts with, cut down to two of its lines: a
\* root with trailing white space and one child.
DEFAULT_INPUT == <<"d", " ", " ", "\n", " ", " ", "e">>

HISTORY_MAX == 50
HOUR_MS == 3600000

\* The delay of the autosave timer.
AUTOSAVE_MS == 800

\* "(пусто)", the title of a text without a non-empty line, transliterated.
EMPTY_TITLE == <<"(", "p", "u", "s", "t", "o", ")">>

\* text.split(/\r?\n/).map((l) => l.trim()).filter((l) => l.length > 0)[0] ?? "(пусто)"
deriveTitleFromInput(text) ==
  LET split == SplitLines(ReplaceCrLf(text))
      lines == SelectSeq([i \in 1..Len(split) |-> Trim(split[i])], LAMBDA l : Len(l) > 0)
  IN  IF lines # <<>> THEN lines[1] ELSE EMPTY_TITLE

\* current.findIndex((e) => e.title === title), counted from 1; 0 if none.
findIndexByTitle(current, title) ==
  LET hits == {i \in 1..Len(current) : current[i].title = title}
  IN  IF hits = {} THEN 0 ELSE CHOOSE i \in hits : \A j \in hits : i <= j

\* The slice as it would be if it kept every item.
sliceToMaxKeepingAll(items) == items

\* items.slice(0, HISTORY_MAX)
sliceToMax(items) == SubSeq(items, 1, IntMin(Len(items), HISTORY_MAX))

\* The random part of a new id.  Math.random() is taken not to repeat among
\* the entries made within one millisecond: the part is the least number
\* that no stored id made at this reading of the clock carries.
randomPart(current, nowMs) ==
  CHOOSE r \in 1..(Len(current) + 1) :
    /\ \A i \in 1..Len(current) : current[i].id # <<nowMs, r>>
    /\ \A q \in 1..(r - 1) : \E i \in 1..Len(current) : current[i].id = <<nowMs, q>>

\* The test of the age as it would be if one hour still counted as recent.
underAnHourOrJust(ageMs) == ageMs <= HOUR_MS

\* if (ageMs < HOUR_MS)
underAnHour(ageMs) == ageMs < HOUR_MS

\* pushToHistory(text) from const now = Date.now() on, on the stored array
\* current at the time nowMs: the array stored when it returns.
storeInHistory(current, text, nowMs) ==
  LET title == deriveTitleFromInput(text)
      sameTitleIdx == findIndexByTitle(current, title)
      existing == current[sameTitleIdx]
      created == existing.createdTs
      ageMs == nowMs - created
      updated == [existing EXCEPT !.ts = nowMs, !.text = text, !.title = title,
                                  !.createdTs = created]
      others == [k \in 1..(Len(current) - 1) |->
                   IF k < sameTitleIdx THEN current[k] ELSE current[k + 1]]
      entry == [id |-> <<nowMs, randomPart(current, nowMs)>>, createdTs |-> nowMs,
                ts |-> nowMs, title |-> title, text |-> text]
  IN  IF current # <<>> /\ current[1].text = text THEN current
      ELSE IF sameTitleIdx > 0 /\ existing.text = text THEN current
      ELSE IF sameTitleIdx > 0 /\ underAnHour(ageMs)
      THEN sliceToMax(<<updated>> \o SelectSeq(others, LAMBDA e : e.text # text))
      ELSE sliceToMax(<<entry>> \o SelectSeq(current, LAMBDA e : e.text # text))

\* pushToHistory as it would be without its two early returns.
pushToHistoryOfAnyText(current, text, nowMs) == storeInHistory(current, text, nowMs)

\* pushToHistory(text) on the stored array current at the time nowMs: the
\* array stored when it returns.
pushToHistory(current, text, nowMs) ==
  IF Len(Trim(text)) = 0 THEN current
  ELSE IF text = DEFAULT_INPUT THEN current
  ELSE storeInHistory(current, text, nowMs)

(***************************************************************************)
(* View and export                                                         *)
(***************************************************************************)

\* The scale 1, and the bounds 0.4 and 5 of clamp, in ten-thousandths.
ZOOM_ONE == 10000
ZOOM_MIN == 4000
ZOOM_MAX == 50000

clamp(v, lo, hi) == IntMax(lo, IntMin(hi, v))

\* Number(x.toFixed(digits)) for x = n / d ten-thousandths, d > 0: the
\* multiples of step ten-thousandths nearest to x.  Where x lies half way
\* between two of them, the double that stands for x decides and either is
\* possible.
toFixed(n, d, step) ==
  LET q == n \div (d * step)
      r == n - q * d * step
  IN  IF 2 * r < d * step THEN {q * step}
      ELSE IF 2 * r > d * step THEN {(q + 1) * step}
      ELSE {q * step, (q + 1) * step}

PAD == 32

NoExport == <<>>

leftsOf(ps) == [i \in 1..Len(ps) |-> ps[i].x]
topsOf(ps) == [i \in 1..Len(ps) |-> ps[i].y]

\* exportSvgAsPng(svgRef.current, outW, outH, filename, viewBoxOverride):
\* the clone of the svg element that is serialised and drawn, as its size,
\* its viewBox, the white rectangle, the transform of the group and the
\* nodes the group draws.
exportSvgAsPng(lay, view, outW, outH, viewBox) ==
  [width |-> outW, height |-> outH, viewBox |-> viewBox,
   rect |-> <<lay.width, lay.height>>,
   transform |-> view,
   positioned |-> lay.positioned]

\* The image saveGraphPng hands to the download for that layout while the
\* group is transformed by view = <<panX, panY, zoom>>.
savedImage(lay, view) ==
  IF Len(lay.positioned) = 0
  THEN exportSvgAsPng(lay, view, lay.width, lay.height,
                      <<R(0), R(0), lay.width, lay.height>>)
  ELSE LET xs == leftsOf(lay.positioned) \o rightsOf(lay.positioned)
           ys == topsOf(lay.positioned) \o bottomsOf(lay.positioned)
           minX == MathMin(xs)
           maxX == MathMax(xs)
           minY == MathMin(ys)
           maxY == MathMax(ys)
           vbX == MathFloor(RSub(minX, R(PAD)))
           vbY == MathFloor(RSub(minY, R(PAD)))
           vbW == MathCeil(RAdd(RSub(maxX, minX), R(PAD * 2)))
           vbH == MathCeil(RAdd(RSub(maxY, minY), R(PAD * 2)))
       IN  exportSvgAsPng(lay, view, vbW, vbH, <<vbX, vbY, vbW, vbH>>)

(***************************************************************************)
(* The App component: its state and its handlers                           *)
(***************************************************************************)

\* Bounds of the model: the lines of text typed under each specification,
\* and the spaces or levels a typed line is indented by.
MaxLines == 2
MaxParseLines == 3
MaxIndent == 4
MaxLayoutLines == 4
MaxLayoutLevel == 2
MaxHistory == 1

Indent(k) == Repeat(<<" ">>, k)

\* Lines typed while the import dialog is in play: plain labels down to the
\* second level, a label that holds a tee marker, a label that is a fence, a
\* label made of a vertical bar only, and an empty line.
EditorLines ==
  { <<"a">>,
    Indent(2) \o <<"b">>,
    Indent(4) \o <<"a">>,
    Indent(2) \o TEE \o <<"a">>,
    CODE_FENCE,
    Indent(2) \o <<VBAR>>,
    <<>> }

\* Lines typed to exercise the parser: two labels at every indentation up
\* to MaxIndent spaces, a third label one level deep, an empty line, a line
\* of spaces only and a line indented with a tab.
ParseLabels == {<<"a">>, <<"b">>}

ParseLines ==
  {Indent(k) \o l : k \in 0..MaxIndent, l \in ParseLabels}
    \cup {Indent(2) \o <<"c">>, <<>>, Indent(2), <<"\t", "b">>}

\* Lines typed to exercise the layout: labels of different rendered widths,
\* with a space and a soft break, indented by whole levels.
LayoutLabels == {<<"a">>, <<"a", "b", " ", "c", "/", "d">>}

LayoutLines == {Indent(k * INDENT_SIZE) \o l : k \in 0..MaxLayoutLevel, l \in LayoutLabels}

\* The advance of one character in the platform's font, in pixels: with 30
\* the longer label of LayoutLabels fits on one line of a node narrower than
\* MAX_NODE_W, with 50 it is wrapped in a node of that width.
CharPxSet == {30, 50}

\* Language tags typed in the language box.
LangSet == {<<"j">>, <<"j", "}", "a">>}

lineCount(text) == IF text = <<>> THEN 0 ELSE Len(SplitLines(text))

\* The values the textarea may report next: everything deleted, or one more
\* line typed at the end of the text.
NextTexts(text, lines, maxLines) ==
  {<<>>} \cup
  (IF lineCount(text) >= maxLines THEN {}
   ELSE {(IF text = <<>> THEN <<>> ELSE text \o <<"\n">>) \o l : l \in lines})

\* const jiraOut = useMemo(() => (wrap ? wrapForJira(ascii, lang) : ascii), ...)
jiraOut == IF wrap THEN wrapForJira(ascii, lang) ELSE ascii

\* The autosave effect as it would be if it left a running timer alone.
autosaveEffectKeepingTimer(v) ==
  IF v = input \/ autosavePending
  THEN UNCHANGED <<autosavePending, autosaveSetAt, autosaveText>>
  ELSE /\ autosavePending' = TRUE
       /\ autosaveSetAt' = now
       /\ autosaveText' = v

\* The autosave effect after setInput(v): its only dependency is input, so
\* when the value is another one its cleanup clears the timer and a new
\* timer is started whose callback closes over v.
autosaveEffect(v) ==
  IF v = input
  THEN UNCHANGED <<autosavePending, autosaveSetAt, autosaveText>>
  ELSE /\ autosavePending' = TRUE
       /\ autosaveSetAt' = now
       /\ autosaveText' = v

\* setInput(v) and the render that follows it: the memoised values that
\* depend on input are recomputed and the effects that depend on it run.
SetInput(v) ==
  LET tree == parseIndentedTree(v, INDENT_SIZE)
      fl == flattenTree(tree)
  IN  /\ input' = v
      /\ parsed' = tree
      /\ ascii' = renderAsciiTree(tree)
      /\ flat' = fl
      /\ layout' = layoutTreeForSvg(fl, charPx)
      /\ inputSetAt' = (IF v = input THEN inputSetAt ELSE now)
      /\ autosaveEffect(v)

\* The textarea's onChange, while no dialog covers the editor.
OnInputChange ==
  /\ UNCHANGED viewVars
  /\ exported' = NoExport
  /\ ~isImportOpen
  /\ \E v \in NextTexts(input, EditorLines, MaxLines) : SetInput(v)
  /\ notified' = FALSE
  /\ UNCHANGED <<charPx, wrap, lang, isImportOpen, importText>>
  /\ UNCHANGED <<wrapVars, history, now, isHistoryOpen>>

\* The checkbox that turns the {code} wrapper on and off.
SetWrap ==
  /\ UNCHANGED viewVars
  /\ exported' = NoExport
  /\ ~isImportOpen
  /\ wrap' = ~wrap
  /\ notified' = FALSE
  /\ UNCHANGED <<input, parsed, ascii, flat, layout, charPx, lang, isImportOpen, importText>>
  /\ UNCHANGED <<wrapVars, historyVars>>

\* The language box, disabled while the wrapper is off.
SetLang ==
  /\ UNCHANGED viewVars
  /\ exported' = NoExport
  /\ ~isImportOpen
  /\ wrap
  /\ \E l \in LangSet : lang' = l
  /\ notified' = FALSE
  /\ UNCHANGED <<input, parsed, ascii, flat, layout, charPx, wrap, isImportOpen, importText>>
  /\ UNCHANGED <<wrapVars, historyVars>>

\* The Import button.
OpenImport ==
  /\ UNCHANGED viewVars
  /\ exported' = NoExport
  /\ ~isImportOpen
  /\ isImportOpen' = TRUE
  /\ importText' = <<>>
  /\ notified' = FALSE
  /\ UNCHANGED <<input, parsed, ascii, flat, layout, charPx, wrap, lang>>
  /\ UNCHANGED <<wrapVars, historyVars>>

\* The dialog's textarea: the user pastes the output copied from the app.
SetImportText ==
  /\ UNCHANGED viewVars
  /\ exported' = NoExport
  /\ isImportOpen
  /\ importText' = jiraOut
  /\ notified' = FALSE
  /\ UNCHANGED <<input, parsed, ascii, flat, layout, charPx, wrap, lang, isImportOpen>>
  /\ UNCHANGED <<wrapVars, historyVars>>

\* The dialog's close button and a click on its backdrop.
CloseImport ==
  /\ UNCHANGED viewVars
  /\ exported' = NoExport
  /\ isImportOpen
  /\ isImportOpen' = FALSE
  /\ importText' = <<>>
  /\ notified' = FALSE
  /\ UNCHANGED <<input, parsed, ascii, flat, layout, charPx, wrap, lang>>
  /\ UNCHANGED <<wrapVars, historyVars>>

\* runImport with the dialog closed and the pasted text dropped also when
\* nothing is imported.
runImportClosingAlways ==
  /\ UNCHANGED viewVars
  /\ exported' = NoExport
  /\ isImportOpen
  /\ LET converted == importJiraToIndented(importText, INDENT_SIZE)
     IN  IF Len(Trim(converted)) = 0
         THEN /\ notified' = TRUE
              /\ isImportOpen' = FALSE
              /\ importText' = <<>>
              /\ UNCHANGED <<input, parsed, ascii, flat, layout>>
              /\ UNCHANGED <<history, autosavePending, autosaveSetAt, autosaveText, inputSetAt>>
         ELSE /\ Len(parseLines(converted, INDENT_SIZE)) <= MaxLines
              /\ SetInput(converted)
              /\ Len(pushToHistory(history, converted, now)) <= MaxHistory
              /\ history' = pushToHistory(history, converted, now)
              /\ isImportOpen' = FALSE
              /\ importText' = <<>>
              /\ notified' = FALSE
  /\ UNCHANGED <<charPx, wrap, lang, now, isHistoryOpen>>
  /\ UNCHANGED <<wrapVars>>

\* notified: the handler that ran last raised an alert.  The model follows an
\* import only while the imported text has at most MaxLines labelled lines
\* and the history it leaves has at most MaxHistory entries.
runImport ==
  /\ UNCHANGED viewVars
  /\ exported' = NoExport
  /\ isImportOpen
  /\ LET converted == importJiraToIndented(importText, INDENT_SIZE)
     IN  IF Len(Trim(converted)) = 0
         THEN /\ notified' = TRUE
              /\ UNCHANGED <<input, parsed, ascii, flat, layout, isImportOpen, importText>>
              /\ UNCHANGED <<history, autosavePending, autosaveSetAt, autosaveText, inputSetAt>>
         ELSE /\ Len(parseLines(converted, INDENT_SIZE)) <= MaxLines
              /\ SetInput(converted)
              /\ Len(pushToHistory(history, converted, now)) <= MaxHistory
              /\ history' = pushToHistory(history, converted, now)
              /\ isImportOpen' = FALSE
              /\ importText' = <<>>
              /\ notified' = FALSE
  /\ UNCHANGED <<charPx, wrap, lang, now, isHistoryOpen>>
  /\ UNCHANGED <<wrapVars>>

\* The state of the component when it is mounted with that text.
AppInit(text, advance) ==
  LET tree == parseIndentedTree(text, INDENT_SIZE)
      fl == flattenTree(tree)
  IN  /\ input = text
      /\ parsed = tree
      /\ ascii = renderAsciiTree(tree)
      /\ flat = fl
      /\ layout = layoutTreeForSvg(fl, advance)
      /\ charPx = advance
      /\ wrap = TRUE
      /\ lang = <<"j">>
      /\ isImportOpen = FALSE
      /\ importText = <<>>
      /\ notified = FALSE

\* wrapTextToLines has not been called.
NoWrapCall ==
  /\ wrapText = <<>>
  /\ maxCharsPerLine = 1
  /\ wrapLines = <<>>
  /\ wrapRun = IdleRun
  /\ wrapWidthPx = 0
  /\ wrapLinesPx = <<>>

\* Nothing is stored and the autosave effect has started its timer.
NoHistory ==
  /\ history = <<>>
  /\ now = 0
  /\ autosavePending = TRUE
  /\ autosaveSetAt = 0
  /\ autosaveText = input
  /\ inputSetAt = 0
  /\ isHistoryOpen = FALSE

\* The view as it is mounted, and nothing downloaded.
NoView ==
  /\ zoom = ZOOM_ONE
  /\ panX = 0
  /\ panY = 0
  /\ isPanning = FALSE
  /\ panStart = <<>>
  /\ exported = NoExport

InitWith(text, advance) ==
  AppInit(text, advance) /\ NoWrapCall /\ NoHistory /\ NoView

Init == InitWith(DEFAULT_INPUT, 7)

Next ==
  \/ OnInputChange
  \/ SetWrap
  \/ SetLang
  \/ OpenImport
  \/ SetImportText
  \/ CloseImport
  \/ runImport

Spec == Init /\ [][Next]_vars

\* The editor alone, with the lines that exercise the parser.
OnParseInputChange ==
  /\ UNCHANGED viewVars
  /\ exported' = NoExport
  /\ \E v \in NextTexts(input, ParseLines, MaxParseLines) : SetInput(v)
  /\ notified' = FALSE
  /\ UNCHANGED <<charPx, wrap, lang, isImportOpen, importText>>
  /\ UNCHANGED <<wrapVars, history, now, isHistoryOpen>>

ParseNext == OnParseInputChange

ParseSpec == Init /\ [][ParseNext]_vars

\* The editor alone, with labels that differ in width, under each font.
OnLayoutInputChange ==
  /\ UNCHANGED viewVars
  /\ exported' = NoExport
  /\ \E v \in NextTexts(input, LayoutLines, MaxLayoutLines) : SetInput(v)
  /\ notified' = FALSE
  /\ UNCHANGED <<charPx, wrap, lang, isImportOpen, importText>>
  /\ UNCHANGED <<wrapVars, history, now, isHistoryOpen>>

LayoutInit == \E advance \in CharPxSet : InitWith(DEFAULT_INPUT, advance)

LayoutNext == OnLayoutInputChange

LayoutSpec == LayoutInit /\ [][LayoutNext]_vars

\* wrapTextToLines alone: a text of at most MaxWrapLen characters and a
\* budget of 1 to MaxBudget characters, then the call.
MaxWrapLen == 8
MaxBudget == 3
WrapAlphabet == {"a", " "}
WrapTexts == UNION {[1..n -> WrapAlphabet] : n \in 0..MaxWrapLen}

WrapInit ==
  /\ AppInit(DEFAULT_INPUT, 7)
  /\ wrapText \in WrapTexts
  /\ maxCharsPerLine \in 1..MaxBudget
  /\ wrapLines = <<>>
  /\ wrapRun = IdleRun
  /\ wrapWidthPx = 0
  /\ wrapLinesPx = <<>>
  /\ NoHistory
  /\ NoView

CallWrapTextToLines ==
  /\ wrapLines = <<>>
  /\ wrapLines' = wrapTextToLines(wrapText, maxCharsPerLine)
  /\ UNCHANGED <<input, parsed, ascii, flat, layout, charPx, wrap, lang,
                 isImportOpen, importText, notified, wrapText, maxCharsPerLine, wrapRun,
                 wrapWidthPx, wrapLinesPx,
                 historyVars, viewVars, exported>>

WrapNext == CallWrapTextToLines

WrapSpec == WrapInit /\ [][WrapNext]_vars

\* Both wrappers on texts that hold two letters, a soft-break delimiter and
\* spaces; the widths hold none to MaxWidthChars characters of the font,
\* whose advance is charPx.
MaxLossLen == 4

MaxWidthChars == 3

LossAlphabet == {"a", "b", "-", " "}

LossTexts == UNION {[1..n -> LossAlphabet] : n \in 0..MaxLossLen}

WrapLossInit ==
  /\ AppInit(DEFAULT_INPUT, 7)
  /\ wrapText \in LossTexts
  /\ maxCharsPerLine \in 1..MaxBudget
  /\ wrapLines = <<>>
  /\ wrapRun = IdleRun
  /\ wrapWidthPx \in {k * 7 : k \in 0..MaxWidthChars}
  /\ wrapLinesPx = <<>>
  /\ NoHistory
  /\ NoView

CallWrapTextToLinesPx ==
  /\ wrapLinesPx = <<>>
  /\ wrapLinesPx' = wrapTextToLinesPx(wrapText, wrapWidthPx, charPx)
  /\ UNCHANGED <<input, parsed, ascii, flat, layout, charPx, wrap, lang,
                 isImportOpen, importText, notified, wrapText, maxCharsPerLine, wrapRun,
                 wrapWidthPx, wrapLines,
                 historyVars, viewVars, exported>>

WrapLossNext ==
  \/ CallWrapTextToLines
  \/ CallWrapTextToLinesPx

WrapLossSpec == WrapLossInit /\ [][WrapLossNext]_vars

\* What a statement of wrapTextToLines leaves alone.
WrapRunFrame ==
  UNCHANGED <<input, parsed, ascii, flat, layout, charPx, wrap, lang,
              isImportOpen, importText, notified, historyVars, viewVars, exported,
              wrapWidthPx, wrapLinesPx>>

\* The call wrapTextToLines(text, maxCharsPerLine) is entered:
\* const clean = ...; if (!clean) return [""]; const words = clean.split(" ")
wrapEnter ==
  /\ wrapRun.pc = "idle"
  /\ \E text \in WrapTexts, budget \in 1..MaxBudget :
       LET clean == cleanText(text)
       IN  /\ wrapText' = text
           /\ maxCharsPerLine' = budget
           /\ IF clean = <<>>
              THEN /\ wrapRun' = [wrapRun EXCEPT !.pc = "done"]
                   /\ wrapLines' = << <<>> >>
              ELSE /\ wrapRun' = [wrapRun EXCEPT !.pc = "words", !.words = SplitSpaces(clean)]
                   /\ UNCHANGED wrapLines
  /\ WrapRunFrame

\* for (const w of words) { ... }: one word, up to the hard-split loop.
wrapNextWord ==
  /\ wrapRun.pc = "words"
  /\ wrapRun.words # <<>>
  /\ LET w == Head(wrapRun.words)
         pushed == pushCurrent([lines |-> wrapRun.lines, current |-> wrapRun.current])
         candidate == IF wrapRun.current # <<>> THEN wrapRun.current \o <<" ">> \o w ELSE w
     IN  wrapRun' =
           IF Len(w) > maxCharsPerLine
           THEN [pc |-> "split", words |-> Tail(wrapRun.words), current |-> <<>>,
                 chunk |-> w, lines |-> pushed.lines]
           ELSE IF Len(candidate) <= maxCharsPerLine
           THEN [wrapRun EXCEPT !.words = Tail(@), !.current = candidate]
           ELSE [wrapRun EXCEPT !.words = Tail(@), !.current = w, !.lines = pushed.lines]
  /\ UNCHANGED <<wrapLines, wrapText, maxCharsPerLine>>
  /\ WrapRunFrame

\* One iteration of while (chunk.length > maxCharsPerLine).
hardSplitStep ==
  /\ wrapRun.pc = "split"
  /\ Len(wrapRun.chunk) > maxCharsPerLine
  /\ wrapRun' = [wrapRun EXCEPT
                   !.lines = Append(@, SubSeq(wrapRun.chunk, 1, maxCharsPerLine)),
                   !.chunk = restOfChunk(@, maxCharsPerLine)]
  /\ UNCHANGED <<wrapLines, wrapText, maxCharsPerLine>>
  /\ WrapRunFrame

\* The loop is left: if (chunk.length) lines.push(chunk); continue;
hardSplitEnd ==
  /\ wrapRun.pc = "split"
  /\ Len(wrapRun.chunk) <= maxCharsPerLine
  /\ wrapRun' = [wrapRun EXCEPT
                   !.pc = "words",
                   !.lines = IF Len(wrapRun.chunk) > 0 THEN Append(@, wrapRun.chunk) ELSE @,
                   !.chunk = <<>>]
  /\ UNCHANGED <<wrapLines, wrapText, maxCharsPerLine>>
  /\ WrapRunFrame

\* pushCurrent(); return lines.length ? lines : [clean];
wrapReturn ==
  /\ wrapRun.pc = "words"
  /\ wrapRun.words = <<>>
  /\ LET pushed == pushCurrent([lines |-> wrapRun.lines, current |-> wrapRun.current])
     IN  /\ wrapRun' = [wrapRun EXCEPT !.pc = "done", !.current = <<>>, !.lines = pushed.lines]
         /\ wrapLines' = IF Len(pushed.lines) > 0 THEN pushed.lines
                         ELSE <<cleanText(wrapText)>>
  /\ UNCHANGED <<wrapText, maxCharsPerLine>>
  /\ WrapRunFrame

WrapRunNext ==
  \/ wrapEnter
  \/ wrapNextWord
  \/ hardSplitStep
  \/ hardSplitEnd
  \/ wrapReturn

\* A call that has been entered keeps executing.
WrapRunSpec == Init /\ [][WrapRunNext]_vars /\ WF_vars(WrapRunNext)

\* The editor while a label is typed a character at a time, in fonts so
\* wide that a node of MAX_NODE_W takes two characters a line, or one.
MaxSizeLen == 9

SizeAlphabet == {"a", " "}

\* Everything deleted, or one more character typed at the end of the text.
SizeTexts(text) ==
  {<<>>} \cup
  (IF Len(text) >= MaxSizeLen THEN {} ELSE {text \o <<c>> : c \in SizeAlphabet})

SizeCharPxSet == {70, 100}

OnSizeInputChange ==
  /\ \E v \in SizeTexts(input) : SetInput(v)
  /\ notified' = FALSE
  /\ exported' = NoExport
  /\ UNCHANGED <<charPx, wrap, lang, isImportOpen, importText>>
  /\ UNCHANGED <<wrapVars, history, now, isHistoryOpen, viewVars>>

SizeInit == \E advance \in SizeCharPxSet : InitWith(DEFAULT_INPUT, advance)

SizeNext == OnSizeInputChange

SizeSpec == SizeInit /\ [][SizeNext]_vars

\* The editor, the autosave timer and the Copy button while the clock
\* advances by half hours: texts with the same first line, a text with
\* another first line, a blank text and the template.
MaxTicks == 3

TICK_MS == 1800000

HistoryTexts ==
  { <<"a">>,
    <<"a", "\n">> \o Indent(2) \o <<"b">>,
    <<"a", "\n">> \o Indent(2) \o <<"c">>,
    <<"b">>,
    Indent(2),
    DEFAULT_INPUT }

\* What the history handlers leave alone.
HistoryFrame ==
  /\ notified' = FALSE
  /\ exported' = NoExport
  /\ UNCHANGED <<input, parsed, ascii, flat, layout, charPx, wrap, lang,
                 isImportOpen, importText>>
  /\ UNCHANGED <<wrapVars, viewVars>>

OnHistoryInputChange ==
  /\ ~isHistoryOpen
  /\ \E v \in HistoryTexts : SetInput(v)
  /\ notified' = FALSE
  /\ exported' = NoExport
  /\ UNCHANGED <<charPx, wrap, lang, isImportOpen, importText>>
  /\ UNCHANGED <<wrapVars, history, now, isHistoryOpen, viewVars>>

\* The timer of the autosave effect fires, not before its delay has passed:
\* pushToHistory(input), with the input of the render that started it.
autosave ==
  /\ autosavePending
  /\ now - autosaveSetAt >= AUTOSAVE_MS
  /\ history' = pushToHistory(history, autosaveText, now)
  /\ autosavePending' = FALSE
  /\ UNCHANGED <<now, autosaveSetAt, autosaveText, inputSetAt, isHistoryOpen>>
  /\ HistoryFrame

\* The Copy button of the editor: pushToHistory(input), then the clipboard.
copyInput ==
  /\ ~isHistoryOpen
  /\ history' = pushToHistory(history, input, now)
  /\ UNCHANGED <<now, autosavePending, autosaveSetAt, autosaveText, inputSetAt, isHistoryOpen>>
  /\ HistoryFrame

\* Time passes.
Tick ==
  /\ now < MaxTicks * TICK_MS
  /\ now' = now + TICK_MS
  /\ UNCHANGED <<history, autosavePending, autosaveSetAt, autosaveText, inputSetAt, isHistoryOpen>>
  /\ UNCHANGED <<input, parsed, ascii, flat, layout, charPx, wrap, lang,
                 isImportOpen, importText, notified, exported>>
  /\ UNCHANGED <<wrapVars, viewVars>>

\* The entries of the dialog whose buttons the model follows: every entry of
\* a list of at most MaxPicks entries; the newest entry of a list that is
\* full or one short of it; none of another list.
MaxPicks == 4

HistoryPicks(current) ==
  IF Len(current) <= MaxPicks THEN 1..Len(current)
  ELSE IF Len(current) >= HISTORY_MAX - 1 THEN {1}
  ELSE {}

\* The History button: setHistory(loadHistory()); setIsHistoryOpen(true).
openHistory ==
  /\ ~isHistoryOpen
  /\ isHistoryOpen' = TRUE
  /\ UNCHANGED <<history, now, autosavePending, autosaveSetAt, autosaveText, inputSetAt>>
  /\ HistoryFrame

\* The close button of the dialog, its backdrop and the Escape key.
closeHistory ==
  /\ isHistoryOpen
  /\ isHistoryOpen' = FALSE
  /\ UNCHANGED <<history, now, autosavePending, autosaveSetAt, autosaveText, inputSetAt>>
  /\ HistoryFrame

\* The click on an entry of the dialog: setInput(h.text), and the dialog
\* closes.
selectHistoryEntry ==
  /\ isHistoryOpen
  /\ \E k \in HistoryPicks(history) : SetInput(history[k].text)
  /\ isHistoryOpen' = FALSE
  /\ notified' = FALSE
  /\ exported' = NoExport
  /\ UNCHANGED <<charPx, wrap, lang, isImportOpen, importText>>
  /\ UNCHANGED <<wrapVars, history, now, viewVars>>

\* loadHistory().filter((e) => e.id !== id)
withoutId(current, id) == SelectSeq(current, LAMBDA e : e.id # id)

\* The delete button of an entry.  When the last entry goes, the dialog
\* closes and the editor returns to the template.
deleteHistoryEntry ==
  /\ isHistoryOpen
  /\ \E k \in HistoryPicks(history) :
       LET next == withoutId(history, history[k].id)
       IN  /\ history' = next
           /\ IF next = <<>>
              THEN /\ isHistoryOpen' = FALSE
                   /\ SetInput(DEFAULT_INPUT)
              ELSE UNCHANGED <<isHistoryOpen, input, parsed, ascii, flat, layout,
                               autosavePending, autosaveSetAt, autosaveText, inputSetAt>>
  /\ notified' = FALSE
  /\ exported' = NoExport
  /\ UNCHANGED <<charPx, wrap, lang, isImportOpen, importText, now>>
  /\ UNCHANGED <<wrapVars, viewVars>>

\* The Clear button of the dialog, once window.confirm has been answered:
\* clearHistory(), the dialog closes and the editor returns to the template.
clearHistory ==
  /\ isHistoryOpen
  /\ \E ok \in BOOLEAN :
       IF ok
       THEN /\ history' = <<>>
            /\ isHistoryOpen' = FALSE
            /\ SetInput(DEFAULT_INPUT)
       ELSE UNCHANGED <<history, isHistoryOpen, input, parsed, ascii, flat, layout,
                        autosavePending, autosaveSetAt, autosaveText, inputSetAt>>
  /\ notified' = FALSE
  /\ exported' = NoExport
  /\ UNCHANGED <<charPx, wrap, lang, isImportOpen, importText, now>>
  /\ UNCHANGED <<wrapVars, viewVars>>

\* The graph pane: the zoom buttons, the wheel, the drag, the Save button
\* and an editor that holds nothing or one label: a short one, whose box is
\* MIN_NODE_W wide, or one of 15 characters, whose box is 129 wide at an
\* advance of 7.
MaxPan == 40

ViewTexts == {<<>>, <<"a">>, Repeat(<<"a">>, 15)}

\* The places of the pointer that the mouse events report.
MousePoints == {<<0, 0>>, <<40, 25>>}

\* deltaY of the wheel events.
WheelDeltaYs == {-60, 30}

\* What the handlers of the graph pane leave alone.
ViewFrame ==
  /\ notified' = FALSE
  /\ exported' = NoExport
  /\ UNCHANGED <<input, parsed, ascii, flat, layout, charPx, wrap, lang,
                 isImportOpen, importText>>
  /\ UNCHANGED <<wrapVars, historyVars>>

OnViewInputChange ==
  /\ \E v \in ViewTexts : SetInput(v)
  /\ notified' = FALSE
  /\ exported' = NoExport
  /\ UNCHANGED <<charPx, wrap, lang, isImportOpen, importText>>
  /\ UNCHANGED <<wrapVars, history, now, isHistoryOpen, viewVars>>

\* setZoom((z) => clamp(Number((z * 1.15).toFixed(3)), 0.4, 5))
zoomIn ==
  /\ \E v \in toFixed(zoom * 115, 100, 10) : zoom' = clamp(v, ZOOM_MIN, ZOOM_MAX)
  /\ UNCHANGED <<panX, panY, isPanning, panStart>>
  /\ ViewFrame

\* setZoom((z) => clamp(Number((z / 1.15).toFixed(3)), 0.4, 5))
zoomOut ==
  /\ \E v \in toFixed(zoom * 100, 115, 10) : zoom' = clamp(v, ZOOM_MIN, ZOOM_MAX)
  /\ UNCHANGED <<panX, panY, isPanning, panStart>>
  /\ ViewFrame

resetView ==
  /\ zoom' = ZOOM_ONE
  /\ panX' = 0
  /\ panY' = 0
  /\ UNCHANGED <<isPanning, panStart>>
  /\ ViewFrame

\* The wheel over the graph pane.  With m = min(60, |dy|), step is
\* (12 + m) / 1200 and next is 1 - step for dy > 0, 1 + step otherwise.  The
\* model follows the wheel from the scale 1 only.
onGraphWheel ==
  /\ zoom = ZOOM_ONE
  /\ \E dy \in WheelDeltaYs :
       LET m == IntMin(60, Abs(dy))
           next == IF dy > 0 THEN 1200 - (12 + m) ELSE 1200 + (12 + m)
       IN  \E v \in toFixed(zoom * next, 1200, 1) : zoom' = clamp(v, ZOOM_MIN, ZOOM_MAX)
  /\ UNCHANGED <<panX, panY, isPanning, panStart>>
  /\ ViewFrame

onMouseDown ==
  /\ \E e \in MousePoints :
       panStart' = << [x |-> e[1], y |-> e[2], px |-> panX, py |-> panY] >>
  /\ isPanning' = TRUE
  /\ UNCHANGED <<zoom, panX, panY>>
  /\ ViewFrame

\* The model follows a drag while panX stays within MaxPan of 0.
onMouseMove ==
  /\ IF ~isPanning \/ panStart = <<>>
     THEN UNCHANGED <<panX, panY>>
     ELSE \E e \in MousePoints :
            /\ Abs(panStart[1].px + (e[1] - panStart[1].x)) <= MaxPan
            /\ panX' = panStart[1].px + (e[1] - panStart[1].x)
            /\ panY' = panStart[1].py + (e[2] - panStart[1].y)
  /\ UNCHANGED <<zoom, isPanning, panStart>>
  /\ ViewFrame

\* onMouseUp and onMouseLeave.
onMouseUp ==
  /\ isPanning' = FALSE
  /\ panStart' = <<>>
  /\ UNCHANGED <<zoom, panX, panY>>
  /\ ViewFrame

\* The Save button, with the svg element mounted and the image loading.
saveGraphPng ==
  /\ history' = pushToHistory(history, input, now)
  /\ exported' = <<savedImage(layout, <<panX, panY, zoom>>)>>
  /\ notified' = FALSE
  /\ UNCHANGED <<input, parsed, ascii, flat, layout, charPx, wrap, lang,
                 isImportOpen, importText>>
  /\ UNCHANGED <<wrapVars, now, autosavePending, autosaveSetAt, autosaveText, inputSetAt, isHistoryOpen,
                 viewVars>>

ViewNext ==
  \/ OnViewInputChange
  \/ zoomIn
  \/ zoomOut
  \/ resetView
  \/ onGraphWheel
  \/ onMouseDown
  \/ onMouseMove
  \/ onMouseUp
  \/ saveGraphPng

ViewSpec == Init /\ [][ViewNext]_vars

\* The editor, the autosave timer and the Copy button while the clock
\* advances by half hours.
HistoryNext ==
  \/ OnHistoryInputChange
  \/ autosave
  \/ copyInput
  \/ Tick

HistorySpec == Init /\ [][HistoryNext]_vars

\* Every handler that stores, removes or loads history entries, except the
\* import, while the clock advances by half hours.
HistoryDialogNext ==
  \/ OnHistoryInputChange
  \/ autosave
  \/ copyInput
  \/ saveGraphPng
  \/ openHistory
  \/ closeHistory
  \/ selectHistoryEntry
  \/ deleteHistoryEntry
  \/ clearHistory
  \/ Tick

HistoryDialogSpec == Init /\ [][HistoryDialogNext]_vars

\* The editor and the autosave timer while the clock advances by half the
\* delay of the timer.  The event loop runs the callback of a timer that is
\* due before it lets the clock advance and before it handles an event that
\* arrives later.
MaxTimerTicks == 6

TIMER_STEP_MS == 400

AutosaveTexts == { <<"a">>, <<"b">>, DEFAULT_INPUT }

TimerDue == autosavePending /\ now - autosaveSetAt >= AUTOSAVE_MS

OnAutosaveInputChange ==
  /\ ~isHistoryOpen
  /\ ~TimerDue
  /\ \E v \in AutosaveTexts : SetInput(v)
  /\ notified' = FALSE
  /\ exported' = NoExport
  /\ UNCHANGED <<charPx, wrap, lang, isImportOpen, importText>>
  /\ UNCHANGED <<wrapVars, history, now, isHistoryOpen, viewVars>>

TimerTick ==
  /\ ~TimerDue
  /\ now < MaxTimerTicks * TIMER_STEP_MS
  /\ now' = now + TIMER_STEP_MS
  /\ UNCHANGED <<history, autosavePending, autosaveSetAt, autosaveText, inputSetAt,
                 isHistoryOpen>>
  /\ UNCHANGED <<input, parsed, ascii, flat, layout, charPx, wrap, lang,
                 isImportOpen, importText, notified, exported>>
  /\ UNCHANGED <<wrapVars, viewVars>>

AutosaveNext ==
  \/ OnAutosaveInputChange
  \/ autosave
  \/ TimerTick

\* A timer that is due fires.
AutosaveSpec == Init /\ [][AutosaveNext]_vars /\ WF_vars(autosave)

\* A store that n calls of pushToHistory within one millisecond have filled
\* with n different one-line texts of two letters, newest first.
FillLetters == <<"p", "q", "r", "s", "t", "u", "v", "w">>

FillText(i) ==
  << FillLetters[((i - 1) \div Len(FillLetters)) + 1],
     FillLetters[((i - 1) % Len(FillLetters)) + 1] >>

FilledHistory(n) ==
  [k \in 1..n |-> [id |-> <<0, n - k + 1>>, createdTs |-> 0, ts |-> 0,
                   title |-> FillText(n - k + 1), text |-> FillText(n - k + 1)]]

FillCounts == {0, HISTORY_MAX - 1, HISTORY_MAX}

\* The component mounts over a stored history: the startup effect shows the
\* newest entry, or the template when nothing is stored.
HistoryCapInit ==
  \E n \in FillCounts :
    /\ AppInit(IF n = 0 THEN DEFAULT_INPUT ELSE FillText(n), 7)
    /\ NoWrapCall
    /\ NoView
    /\ history = FilledHistory(n)
    /\ now = 0
    /\ autosavePending = TRUE
    /\ autosaveSetAt = 0
    /\ autosaveText = input
    /\ inputSetAt = 0
    /\ isHistoryOpen = FALSE

\* The editor, the Copy button and the History dialog within one reading of
\* the clock.
HistoryCapNext ==
  \/ OnHistoryInputChange
  \/ copyInput
  \/ openHistory
  \/ closeHistory
  \/ selectHistoryEntry
  \/ deleteHistoryEntry
  \/ clearHistory

HistoryCapSpec == HistoryCapInit /\ [][HistoryCapNext]_vars

\* The editor and the import dialog, with plain labels only.
MaxImportLines == 2

ImportLines == {<<"a">>, <<"b">>, Indent(2) \o <<"b">>, <<>>}

OnImportInputChange ==
  /\ UNCHANGED viewVars
  /\ exported' = NoExport
  /\ ~isImportOpen
  /\ \E v \in NextTexts(input, ImportLines, MaxImportLines) : SetInput(v)
  /\ notified' = FALSE
  /\ UNCHANGED <<charPx, wrap, lang, isImportOpen, importText>>
  /\ UNCHANGED <<wrapVars, history, now, isHistoryOpen>>

ImportNext ==
  \/ OnImportInputChange
  \/ SetWrap
  \/ OpenImport
  \/ SetImportText
  \/ CloseImport
  \/ runImport

ImportSpec == Init /\ [][ImportNext]_vars

(***************************************************************************)
(* Vocabulary of the properties                                            *)
(***************************************************************************)

RECURSIVE NodeCount(_)
NodeCount(nodes) ==
  IF nodes = <<>> THEN 0 ELSE 1 + NodeCount(Head(nodes).children) + NodeCount(Tail(nodes))

\* Every label is non-empty and trimmed, at every depth.
RECURSIVE WellFormed(_)
WellFormed(nodes) ==
  \A i \in 1..Len(nodes) :
    /\ nodes[i].text # <<>>
    /\ Trim(nodes[i].text) = nodes[i].text
    /\ WellFormed(nodes[i].children)

HasInk(line) == \E i \in 1..Len(line) : ~IsWs(line[i])

\* No label of the current tree is made of vertical bars and white space only.
NoBarOnlyLabel == \A i \in 1..Len(flat) : ~isConnectorOnly(flat[i].text)

\* The lines of the editor that carry a label, and the level of each.
InkLines == parseLines(input, INDENT_SIZE)
LevelIn(lines, i) == countLeadingSpaces(lines[i]) \div INDENT_SIZE
LevelOfLine(i) == LevelIn(InkLines, i)

\* The nearest line before line i with a strictly smaller level, 0 if none.
NearestShallowerIn(lines, i) ==
  LET js == {j \in 1..(i - 1) : LevelIn(lines, j) < LevelIn(lines, i)}
  IN  IF js = {} THEN 0 ELSE CHOOSE j \in js : \A k \in js : k <= j

NearestShallower(i) == NearestShallowerIn(InkLines, i)

\* Line i is indented by more than one level below the line it hangs from.
OverIndentedIn(lines, i) ==
  LET p == NearestShallowerIn(lines, i)
  IN  LevelIn(lines, i) > (IF p = 0 THEN -1 ELSE LevelIn(lines, p)) + 1

OverIndented(i) == OverIndentedIn(InkLines, i)

(***************************************************************************)
(* C1                                                                      *)
(***************************************************************************)

\* C1: round trip.  For every input text whose labels are not made only of
\* vertical bars and white space, parsing the text, rendering the tree,
\* importing the rendering and parsing the imported text gives the forest the
\* first parse gave: the same roots, structure, child order and labels.
C1_RoundTrip ==
  NoBarOnlyLabel =>
    parseIndentedTree(importJiraToIndented(ascii, INDENT_SIZE), INDENT_SIZE) = parsed

(***************************************************************************)
(* C2                                                                      *)
(***************************************************************************)

Scenario1 == <<"a", "\n", " ", " ", "b", "\n", " ", " ", "c">>

AsciiLines == SplitLines(ascii)

\* The positions in the rendering of the lines that carry a label, in order.
LabelLineIdx ==
  LET RECURSIVE pick(_)
      pick(i) ==
        IF i > Len(AsciiLines) THEN <<>>
        ELSE (IF HasInk(AsciiLines[i]) /\ ~isConnectorOnly(Trim(AsciiLines[i])) THEN <<i>> ELSE <<>>)
             \o pick(i + 1)
  IN  pick(1)

SpacerLineCount ==
  Cardinality({i \in 1..Len(AsciiLines) : isConnectorOnly(Trim(AsciiLines[i]))})

\* Node k of flat is a child with a sibling before it.
HasElderSibling(k) ==
  /\ flat[k].parentId # NULL
  /\ byId(flat, flat[k].parentId).childrenIds[1] # flat[k].id

\* C2: the rendering of "A\n  B\n  C" is the five lines A, bar, tee B, bar,
\* corner C; and for every node with two or more children, at any depth and
\* also directly under a root, one spacer line (the children's prefix and a
\* bar) stands between consecutive children and none after the last, so the
\* rendering holds as many spacer lines as the forest has nodes below a root.
C2_SiblingSpacers ==
  /\ input = Scenario1 =>
       AsciiLines = << <<"a">>, <<VBAR>>, TEE \o <<"b">>, <<VBAR>>, CORNER \o <<"c">> >>
  /\ NoBarOnlyLabel =>
       /\ Len(LabelLineIdx) = Len(flat)
       /\ \A k \in 1..Len(flat) :
            HasElderSibling(k) =>
              LET at == LabelLineIdx[k]
              IN  /\ at > 1
                  /\ AsciiLines[at - 1] =
                       SubSeq(AsciiLines[at], 1, 3 * (flat[k].depth - 1)) \o <<VBAR>>
       /\ SpacerLineCount = Cardinality({k \in 1..Len(flat) : flat[k].parentId # NULL})

(***************************************************************************)
(* C3                                                                      *)
(***************************************************************************)

Scenario2 == <<"a", "\n", " ", " ", " ", " ", "b">>

\* C3: a line indented by more than one level below the line it hangs from
\* becomes a direct child of that line, the nearest one before it with a
\* smaller level (a root when there is none): its depth is that line's depth
\* plus one and no node is made up for the levels skipped, so "A\n    B"
\* gives the root A with the single child B.
C3_IndentClamp ==
  /\ LET ink == InkLines
     IN  /\ Len(flat) = Len(ink)
         /\ \A i \in 1..Len(flat) :
              OverIndentedIn(ink, i) =>
                LET p == NearestShallowerIn(ink, i)
                IN  /\ flat[i].text = Trim(ink[i])
                    /\ flat[i].parentId = (IF p = 0 THEN NULL ELSE flat[p].id)
                    /\ flat[i].depth = (IF p = 0 THEN 0 ELSE flat[p].depth + 1)
  /\ input = Scenario2 =>
       parsed = <<[text |-> <<"a">>,
                   children |-> <<[text |-> <<"b">>, children |-> <<>>]>>]>>

\* A line two levels below the line it hangs from has been parsed.
C3_Witness ==
  \E i \in 1..Len(flat) :
    /\ OverIndented(i)
    /\ NearestShallower(i) # 0
    /\ flat[i].depth = flat[NearestShallower(i)].depth + 1
    /\ parsed = parseIndentedTree(input, INDENT_SIZE)

(***************************************************************************)
(* C9                                                                      *)
(***************************************************************************)

EditorInkLineCount ==
  LET ls == SplitLines(input)
  IN  Cardinality({i \in 1..Len(ls) : HasInk(ls[i])})

\* C9: the parser accepts every input text: the forest it returns holds one
\* node for each line of the text that has a character other than white
\* space, no more and no fewer, each with the line's trimmed, non-empty
\* label; the empty text and a text of white space only give no root.
C9_ParserTotal ==
  /\ parsed = parseIndentedTree(input, INDENT_SIZE)
  /\ NodeCount(parsed) = EditorInkLineCount
  /\ WellFormed(parsed)
  /\ Len(flat) = NodeCount(parsed)
  /\ (~HasInk(input)) => parsed = <<>>

\* A text with a blank line among lines that carry labels has been parsed.
C9_Witness ==
  LET ls == SplitLines(input)
  IN  /\ \E i \in 1..Len(ls) : ~HasInk(ls[i])
      /\ NodeCount(parsed) >= 2
      /\ parsed = parseIndentedTree(input, INDENT_SIZE)

(***************************************************************************)
(* C4                                                                      *)
(***************************************************************************)

\* C4: the fenced wrapper is cosmetic on import.  For the connector text on
\* display and the language tag in the field, importing the text wrapped in
\* the fence gives what importing the bare text gives.
C4_WrapperCosmetic ==
  importJiraToIndented(wrapForJira(ascii, lang), INDENT_SIZE)
    = importJiraToIndented(ascii, INDENT_SIZE)

(***************************************************************************)
(* Vocabulary of the layout properties                                     *)
(***************************************************************************)

Positioned == layout.positioned

\* The positioned node with that id.
Box(id) == Positioned[indexOfId(flat, id)]

Centre(p) == RAdd(p.x, RDiv(p.w, R(2)))

RECURSIVE IsAncestor(_, _)
IsAncestor(a, b) ==
  LET p == byId(flat, b).parentId
  IN  p # NULL /\ (p = a \/ IsAncestor(a, p))

Related(a, b) == IsAncestor(a, b) \/ IsAncestor(b, a)

\* The two rectangles have no point in common.
Apart(p, q) ==
  \/ RLt(RAdd(p.x, p.w), q.x)
  \/ RLt(RAdd(q.x, q.w), p.x)
  \/ RLt(RAdd(p.y, p.h), q.y)
  \/ RLt(RAdd(q.y, q.h), p.y)

Leaves == SelectSeq(flat, LAMBDA n : n.childrenIds = <<>>)

(***************************************************************************)
(* C5                                                                      *)
(***************************************************************************)

\* C5: no overlap.  The rectangles of two distinct nodes of which neither is
\* an ancestor of the other (siblings among them) have no point in common,
\* whatever widths and heights the labels give the nodes.
C5_NoOverlap ==
  /\ Len(Positioned) = Len(flat)
  /\ \A i, j \in 1..Len(flat) :
       (i # j /\ ~Related(flat[i].id, flat[j].id)) => Apart(Positioned[i], Positioned[j])

\* Two nodes of the greatest width stand side by side, one slot apart.
C5_Witness ==
  \E i, j \in 1..Len(Positioned) :
    /\ i # j
    /\ ~Related(flat[i].id, flat[j].id)
    /\ Positioned[i].depth = Positioned[j].depth
    /\ Positioned[i].w = R(MAX_NODE_W)
    /\ Positioned[j].w = R(MAX_NODE_W)
    /\ RSub(Centre(Positioned[j]), Centre(Positioned[i])) = R(SLOT_W + GAP_X)

(***************************************************************************)
(* C6                                                                      *)
(***************************************************************************)

\* C6: centering.  After the two shifts, the x-center (x + w/2) of every
\* node with at least one child is the arithmetic mean of the x-centers of
\* its children.
C6_Centering ==
  \A i \in 1..Len(Positioned) :
    LET ch == Positioned[i].childrenIds
        cs == [k \in 1..Len(ch) |-> Centre(Box(ch[k]))]
    IN  Len(ch) > 0 => Centre(Positioned[i]) = RDiv(SumSeq(cs), R(Len(ch)))

\* A shifted drawing holds a parent of children of different widths, one of
\* them with children of its own.
C6_Witness ==
  /\ Positioned # placedOf(flat, charPx)
  /\ \E i \in 1..Len(Positioned) :
       LET ch == Positioned[i].childrenIds
       IN  /\ Len(ch) >= 2
           /\ Box(ch[1]).w # Box(ch[2]).w
           /\ \E k \in 1..Len(ch) : Box(ch[k]).childrenIds # <<>>

(***************************************************************************)
(* C7                                                                      *)
(***************************************************************************)

\* C7: monotonic leaves.  The leaves, in the pre-order of the forest and
\* across its roots, take the units 0, 1, 2, ... and their x-centers grow
\* strictly from each leaf to the next.
C7_MonotonicLeaves ==
  \A k \in 1..Len(Leaves) :
    /\ leafXOf(flat)[Leaves[k].id] = k - 1
    /\ xUnitOf(flat)[Leaves[k].id] = R(k - 1)
    /\ k > 1 => RLt(Centre(Box(Leaves[k - 1].id)), Centre(Box(Leaves[k].id)))

\* Three leaves or more under two roots or more, one root having children.
C7_Witness ==
  /\ Len(Leaves) >= 3
  /\ Len(rootIds(flat)) >= 2
  /\ Len(flat) > Len(Leaves)
  /\ Len(Positioned) = Len(flat)

(***************************************************************************)
(* C8                                                                      *)
(***************************************************************************)

\* C8: no sibling reordering.  The x-centers of the children of every
\* parent grow strictly in the order of childrenIds, whether the children
\* are leaves or have children themselves.
C8_SiblingOrder ==
  \A i \in 1..Len(Positioned) :
    LET ch == Positioned[i].childrenIds
    IN  \A k \in 1..(Len(ch) - 1) : RLt(Centre(Box(ch[k])), Centre(Box(ch[k + 1])))

\* A parent has a child with children followed by a child that is a leaf.
C8_Witness ==
  \E i \in 1..Len(Positioned) :
    LET ch == Positioned[i].childrenIds
    IN  /\ Len(ch) >= 2
        /\ Box(ch[1]).childrenIds # <<>>
        /\ Box(ch[2]).childrenIds = <<>>

(***************************************************************************)
(* C10                                                                     *)
(***************************************************************************)

WrapWordsIn == SplitSpaces(cleanText(wrapText))

\* C11: character-budget wrapping.  For every text and budget of 1 or more,
\* every line wrapTextToLines returns is at most the budget long, and no
\* line is empty unless the cleaned text is empty; MaxWrapLen characters
\* without a space give chunks of the budget and a last chunk of the rest.
C11_BudgetWrapping ==
  wrapLines # <<>> =>
    /\ \A i \in 1..Len(wrapLines) :
         /\ Len(wrapLines[i]) <= maxCharsPerLine
         /\ wrapLines[i] = <<>> => cleanText(wrapText) = <<>>
    /\ wrapText = Repeat(<<"a">>, MaxWrapLen) =>
         /\ Len(wrapLines) = (MaxWrapLen + maxCharsPerLine - 1) \div maxCharsPerLine
         /\ \A i \in 1..Len(wrapLines) : Len(wrapLines[i]) \in 1..maxCharsPerLine

\* A word longer than the budget has been split, next to a line that packs
\* two words.
C11_Witness ==
  /\ wrapLines # <<>>
  /\ \E k \in 1..Len(WrapWordsIn) : Len(WrapWordsIn[k]) > maxCharsPerLine
  /\ \E i \in 1..Len(wrapLines) : IndexOf(wrapLines[i], <<" ">>) >= 0

(***************************************************************************)
(* C12                                                                     *)
(***************************************************************************)

\* The pairs (i, k) such that node i of flat lists the id at position k of
\* its childrenIds.
ListingsOf(id) ==
  {ik \in (1..Len(flat)) \X (1..Len(flat)) :
     /\ ik[2] <= Len(flat[ik[1]].childrenIds)
     /\ flat[ik[1]].childrenIds[ik[2]] = id}

\* C12: FlatNode consistency.  Every id in the childrenIds of a node belongs
\* to a node whose parentId is that node's id; every node with a parentId is
\* listed once, by its parent and by no other node; a node without parentId
\* has depth 0 and a child has the depth of its parent plus one.
C12_FlatConsistency ==
  /\ flat = flattenTree(parsed)
  /\ \A i \in 1..Len(flat) :
       /\ \A k \in 1..Len(flat[i].childrenIds) :
            /\ \E j \in 1..Len(flat) : flat[j].id = flat[i].childrenIds[k]
            /\ \A j \in 1..Len(flat) :
                 flat[j].id = flat[i].childrenIds[k] => flat[j].parentId = flat[i].id
       /\ flat[i].parentId = NULL =>
            /\ flat[i].depth = 0
            /\ ListingsOf(flat[i].id) = {}
       /\ flat[i].parentId # NULL =>
            /\ Cardinality(ListingsOf(flat[i].id)) = 1
            /\ \A ik \in ListingsOf(flat[i].id) : flat[ik[1]].id = flat[i].parentId
            /\ \A j \in 1..Len(flat) :
                 flat[j].id = flat[i].parentId => flat[i].depth = flat[j].depth + 1
  /\ Cardinality({i \in 1..Len(flat) : flat[i].parentId = NULL}) = Len(parsed)

\* A forest with a grandchild has been flattened.
C12_Witness ==
  /\ flat = flattenTree(parsed)
  /\ \E i \in 1..Len(flat) : flat[i].depth >= 2

(***************************************************************************)
(* C13                                                                     *)
(***************************************************************************)

\* The nodes of a forest in pre-order: the label and the number of children
\* of each.
RECURSIVE PreOrder(_)
PreOrder(nodes) ==
  IF nodes = <<>> THEN <<>>
  ELSE <<[text |-> Head(nodes).text, arity |-> Len(Head(nodes).children)]>>
       \o PreOrder(Head(nodes).children) \o PreOrder(Tail(nodes))

\* The number of nodes of flat in the subtree of the node at position i.
RECURSIVE SubtreeSize(_)
SubtreeSize(i) ==
  LET ch == flat[i].childrenIds
      RECURSIVE sum(_)
      sum(k) == IF k > Len(ch) THEN 0 ELSE SubtreeSize(ch[k]) + sum(k + 1)
  IN  1 + sum(1)

\* C13: flattenTree numbers the nodes 1..n in a pre-order walk over all the
\* roots: the element at position i (from 1) has id i and is the i-th node
\* of the forest in pre-order, so ids are unique; the id of a parent is
\* smaller than the ids of its descendants; childrenIds lists the children
\* in the order of the tree, the first right after the parent and each next
\* one after the subtree of the one before.
C13_PreOrderIds ==
  /\ Len(flat) = Len(PreOrder(parsed))
  /\ \A i \in 1..Len(flat) :
       /\ flat[i].id = i
       /\ flat[i].text = PreOrder(parsed)[i].text
       /\ Len(flat[i].childrenIds) = PreOrder(parsed)[i].arity
       /\ flat[i].parentId # NULL => flat[i].parentId < flat[i].id
       /\ \A k \in 1..Len(flat[i].childrenIds) :
            flat[i].childrenIds[k] =
              IF k = 1 THEN i + 1
              ELSE flat[i].childrenIds[k - 1] + SubtreeSize(flat[i].childrenIds[k - 1])

\* Two roots or more have been flattened, the first with a child, so that
\* the ids run on across a subtree and across the roots.
C13_Witness ==
  /\ flat = flattenTree(parsed)
  /\ Len(parsed) >= 2
  /\ Len(parsed[1].children) >= 1

\* The import that the text in the dialog gives.
Converted == importJiraToIndented(importText, INDENT_SIZE)

\* C14: when runImport runs and the conversion of importText holds nothing
\* but white space, the user is notified and the editor's text, the stored
\* history, the dialog's open state and importText stay as they were.
C14_EmptyImportRejected ==
  [][(runImport /\ Len(Trim(Converted)) = 0) =>
       /\ notified'
       /\ input' = input
       /\ history' = history
       /\ isImportOpen' = isImportOpen
       /\ importText' = importText]_vars

\* An import of a wrapper around nothing has been refused while the history
\* held an entry: the dialog is still open on the pasted text.
C14_Witness ==
  /\ notified
  /\ isImportOpen
  /\ importText # <<>>
  /\ Len(Trim(Converted)) = 0
  /\ history # <<>>

\* C15: the image downloaded by saveGraphPng is the one that the layout
\* gives with the view as it is mounted (zoom 1, no pan), whatever zoom,
\* panX and panY the zoom, drag and reset handlers have reached.
C15_ExportIgnoresView ==
  exported # NoExport => exported = <<savedImage(layout, <<0, 0, ZOOM_ONE>>)>>

\* The lines that wrapping the label of the positioned node p gives within
\* the inner width of its box, before any cap.
WrappedLines(p) ==
  wrapTextToLinesPx(cleanText(p.text), IntMax(40, p.w.n - PADDING_X * 2), charPx)

\* C16: every node of the layout has between 1 and MAX_LINES lines, and its
\* height is PADDING_Y * 2 + lines.length * LINE_H + 8.
C16_LinesAndHeight ==
  \A i \in 1..Len(Positioned) :
    LET p == Positioned[i]
    IN  /\ 1 <= Len(p.lines)
        /\ Len(p.lines) <= MAX_LINES
        /\ p.h = R(PADDING_Y * 2 + Len(p.lines) * LINE_H + 8)

\* A label that wraps into more than MAX_LINES lines is laid out: its node
\* has MAX_LINES lines and the height of seven lines.
C16_Witness ==
  \E i \in 1..Len(Positioned) :
    /\ Len(WrappedLines(Positioned[i])) > MAX_LINES
    /\ Len(Positioned[i].lines) = MAX_LINES
    /\ Positioned[i].h = R(PADDING_Y * 2 + MAX_LINES * LINE_H + 8)

\* C20: when wrapping a node's label gives more than MAX_LINES lines, the
\* node keeps MAX_LINES lines, the first MAX_LINES - 1 as wrapped and the
\* last one the wrapped MAX_LINES-th line followed by " …"; when it gives
\* MAX_LINES lines or fewer, the node keeps them as wrapped; the node's text
\* is the text of the flat node in either case.
C20_LineCap ==
  \A i \in 1..Len(Positioned) :
    LET p == Positioned[i]
        wrapped == WrappedLines(p)
    IN  /\ Len(wrapped) > MAX_LINES =>
             /\ Len(p.lines) = MAX_LINES
             /\ \A k \in 1..(MAX_LINES - 1) : p.lines[k] = wrapped[k]
             /\ p.lines[MAX_LINES] = wrapped[MAX_LINES] \o ELLIPSIS
        /\ Len(wrapped) <= MAX_LINES => p.lines = wrapped
        /\ p.text = byId(flat, p.id).text

\* A label of two words that wraps into eight lines has been capped: the
\* seventh line of its node ends with the mark and the eighth is gone.
C20_Witness ==
  \E i \in 1..Len(Positioned) :
    LET p == Positioned[i]
    IN  /\ Len(WrappedLines(p)) = MAX_LINES + 1
        /\ Len(p.lines) = MAX_LINES
        /\ p.lines[MAX_LINES] = WrappedLines(p)[MAX_LINES] \o ELLIPSIS
        /\ \E k \in 1..Len(p.text) : p.text[k] = " "

\* The place in the history of the newest entry whose title is that of the
\* editor's text; 0 if there is none.
SameTitleIdx == findIndexByTitle(history, deriveTitleFromInput(input))

\* The editor's text is not blank and not the template, and differs from
\* the text of the newest entry and of the newest entry with its title.
Storable ==
  /\ Len(Trim(input)) > 0
  /\ input # DEFAULT_INPUT
  /\ history # <<>> => history[1].text # input
  /\ SameTitleIdx > 0 => history[SameTitleIdx].text # input

\* The history without its entry at idx (with all of them for idx = 0) and
\* without the entries that hold that text.
OthersWithout(idx, text) ==
  LET rest == [k \in 1..(Len(history) - (IF idx > 0 THEN 1 ELSE 0)) |->
                 IF idx = 0 \/ k < idx THEN history[k] ELSE history[k + 1]]
  IN  SelectSeq(rest, LAMBDA e : e.text # text)

\* C17: pushToHistory is called with a storable text.  If the newest entry
\* with the same title was created less than an hour ago, no entry is added:
\* that entry moves to the front with its id and createdTs kept and its text
\* and ts replaced.  If it was created an hour ago or more, or there is no
\* such entry, an entry with an id that no stored entry has and with
\* createdTs = now is added at the front.  The entries behind the front are
\* the other stored entries that hold another text, in their order.
C17_OneHourPerTitle ==
  [][((autosave \/ copyInput) /\ Storable) =>
       IF SameTitleIdx > 0 /\ now - history[SameTitleIdx].createdTs < HOUR_MS
       THEN /\ Len(history') <= Len(history)
            /\ history'[1] = [history[SameTitleIdx] EXCEPT !.text = input, !.ts = now]
            /\ Tail(history') = OthersWithout(SameTitleIdx, input)
       ELSE /\ Len(history') >= 1
            /\ \A k \in 1..Len(history) : history[k].id # history'[1].id
            /\ history'[1].createdTs = now
            /\ history'[1].ts = now
            /\ history'[1].text = input
            /\ history'[1].title = deriveTitleFromInput(input)
            /\ Tail(history') = OthersWithout(0, input)]_vars

\* Both branches have been taken for one title: the history holds an entry
\* that was updated after it was created, in front of an entry of the same
\* title created an hour or more before it.
C17_Witness ==
  \E i, j \in 1..Len(history) :
    /\ i < j
    /\ history[i].title = history[j].title
    /\ history[i].createdTs - history[j].createdTs >= HOUR_MS
    /\ history[i].ts > history[i].createdTs

\* The lines of the text in the dialog that the importer loops over.
ImportedLines ==
  TrimEndEach(SplitLines(ReplaceCrLf(stripClosingFence(stripOpeningFence(importText)))))

\* The place of the earliest connector marker of either kind in the line,
\* counted from 0; -1 if it holds none.
EarliestMarker(line) ==
  LET idxA == IndexOf(line, TEE)
      idxB == IndexOf(line, CORNER)
  IN  IF idxA < 0 THEN idxB ELSE IF idxB < 0 THEN idxA ELSE IntMin(idxA, idxB)

\* C18: the importer splits every line that is not blank and not a spacer at
\* its earliest connector marker of either kind: the prefix is what stands
\* before that marker, the label all that follows it, and the line is
\* emitted at the level of that prefix; a line without a marker is emitted
\* trimmed.
C18_EarliestMarkerSplit ==
  \A i \in 1..Len(ImportedLines) :
    LET line == ImportedLines[i]
        idx == EarliestMarker(line)
        level == (idx \div 3) + 1
    IN  (Len(Trim(line)) > 0 /\ ~isConnectorOnly(Trim(line))) =>
          importLine(line, INDENT_SIZE) =
            IF idx < 0 THEN <<Trim(line)>>
            ELSE <<Indent(level * INDENT_SIZE) \o Trim(Slice(line, idx + 3))>>

\* The lines of the import of the rendered tree that hold a label.
ImportedLabelLines ==
  SelectSeq(SplitLines(importJiraToIndented(ascii, INDENT_SIZE)),
            LAMBDA l : Len(Trim(l)) > 0)

\* C19: the renderer and the importer agree on depth: when the import of
\* the rendered tree has a line for every node, the line of a node of depth
\* d >= 1 starts with exactly INDENT_SIZE * d spaces.
C19_DepthAgreement ==
  Len(ImportedLabelLines) = Len(flat) =>
    \A i \in 1..Len(flat) :
      flat[i].depth >= 1 =>
        countLeadingSpaces(ImportedLabelLines[i]) = INDENT_SIZE * flat[i].depth

\* The image that the handler that ran last has downloaded.
Exported == exported[1]

\* C21: the viewBox of the image saved for a layout with nodes covers the
\* box around all node rectangles widened by PAD on each side; for a layout
\* without nodes the whole canvas is saved.
C21_TightExportBox ==
  exported # NoExport =>
    LET vb == Exported.viewBox
        xs == leftsOf(Positioned) \o rightsOf(Positioned)
        ys == topsOf(Positioned) \o bottomsOf(Positioned)
    IN  IF Len(Positioned) = 0
        THEN vb = <<R(0), R(0), layout.width, layout.height>>
        ELSE /\ RLe(vb[1], RSub(MathMin(xs), R(PAD)))
             /\ RLe(vb[2], RSub(MathMin(ys), R(PAD)))
             /\ RLe(RAdd(MathMax(xs), R(PAD)), RAdd(vb[1], vb[3]))
             /\ RLe(RAdd(MathMax(ys), R(PAD)), RAdd(vb[2], vb[4]))

\* C22: in a layout with nodes every node lies within the canvas less its
\* margin: x >= MARGIN, y >= MARGIN, x + w <= width - MARGIN and
\* y + h <= height - MARGIN; the canvas is at least MIN_CANVAS_W + MARGIN
\* wide and MIN_CANVAS_H + MARGIN high.
C22_CanvasBounds ==
  Len(Positioned) > 0 =>
    /\ \A i \in 1..Len(Positioned) :
         LET p == Positioned[i]
         IN  /\ RLe(R(MARGIN), p.x)
             /\ RLe(R(MARGIN), p.y)
             /\ RLe(RAdd(p.x, p.w), RSub(layout.width, R(MARGIN)))
             /\ RLe(RAdd(p.y, p.h), RSub(layout.height, R(MARGIN)))
    /\ RLe(R(MIN_CANVAS_W + MARGIN), layout.width)
    /\ RLe(R(MIN_CANVAS_H + MARGIN), layout.height)

\* The nodes reach further right than the minimum canvas: the canvas has
\* grown, one node stands at the left margin and one ends at the right one.
C22_Witness ==
  /\ RLt(R(MIN_CANVAS_W + MARGIN), layout.width)
  /\ \E i \in 1..Len(Positioned) : Positioned[i].x = R(MARGIN)
  /\ \E i \in 1..Len(Positioned) :
       RAdd(Positioned[i].x, Positioned[i].w) = RSub(layout.width, R(MARGIN))

\* The lines of the editor that carry a label, each with its indentation
\* cut down to a whole number of levels.
WholeLevelText ==
  LET ink == InkLines
  IN  JoinLines([i \in 1..Len(ink) |->
                   Indent(LevelIn(ink, i) * INDENT_SIZE) \o Trim(ink[i])])

\* C23: with the level of a line the whole part of its leading spaces over
\* indentSize, the node of each non-blank line hangs from the node of the
\* nearest non-blank line before it with a strictly smaller level, and is a
\* root when there is none; spaces beyond a whole number of levels change
\* nothing.
C23_ParentRule ==
  /\ LET ink == InkLines
     IN  /\ Len(flat) = Len(ink)
         /\ \A i \in 1..Len(flat) :
              LET p == NearestShallowerIn(ink, i)
              IN  /\ flat[i].text = Trim(ink[i])
                  /\ flat[i].parentId = (IF p = 0 THEN NULL ELSE flat[p].id)
  /\ parseIndentedTree(WholeLevelText, INDENT_SIZE) = parsed

\* A line with an odd number of leading spaces hangs from a line that is
\* not the one just before it.
C23_Witness ==
  \E i \in 1..Len(flat) :
    /\ Len(flat) = Len(InkLines)
    /\ countLeadingSpaces(InkLines[i]) % INDENT_SIZE # 0
    /\ NearestShallower(i) # 0
    /\ NearestShallower(i) < i - 1
    /\ flat[i].parentId = flat[NearestShallower(i)].id


(***************************************************************************)
(* C24                                                                     *)
(***************************************************************************)

\* The handler that runs calls pushToHistory(input).
PushesInput == autosave \/ copyInput \/ saveGraphPng

\* The text is the template, or nothing is left of it after trimming.
TemplateOrBlank(text) == text = DEFAULT_INPUT \/ Len(Trim(text)) = 0

\* C24: whatever pushToHistory calls, deletions and clearings have happened
\* since the store was empty, no stored entry holds the template or a text
\* that is empty after trimming, and a pushToHistory call with such a text
\* leaves the stored history as it was.
C24_TemplateAndBlankNotStored ==
  /\ [](\A k \in 1..Len(history) : ~TemplateOrBlank(history[k].text))
  /\ [][(PushesInput /\ TemplateOrBlank(input)) => history' = history]_vars

\* The autosave timer has fired for the template while entries were stored.
C24_Witness ==
  /\ history # <<>>
  /\ input = DEFAULT_INPUT
  /\ ~autosavePending


(***************************************************************************)
(* C25                                                                     *)
(***************************************************************************)

\* C25: whatever pushToHistory calls, deletions and clearings have happened,
\* no two stored entries hold the same text and the stored list has at most
\* HISTORY_MAX entries.
C25_DistinctAndBounded ==
  /\ \A i, j \in 1..Len(history) : i < j => history[i].text # history[j].text
  /\ Len(history) <= HISTORY_MAX

\* A text of the editor has been pushed onto a full store: the store is
\* still full and the oldest entry has left it.
C25_Witness ==
  /\ Len(history) = HISTORY_MAX
  /\ history[1].text \in HistoryTexts
  /\ \A k \in 1..Len(history) : history[k].text # FillText(1)


(***************************************************************************)
(* C26                                                                     *)
(***************************************************************************)

\* The editor holds the text of a stored entry, as it does once the entry
\* has been selected in the History dialog.
InputIsStored == \E k \in 1..Len(history) : history[k].text = input

C28_WrapTerminates ==
  /\ [][hardSplitStep => Len(wrapRun'.chunk) < Len(wrapRun.chunk)]_vars
  /\ <>(wrapRun.pc = "done")
  /\ [](wrapRun.pc = "done" => wrapLines = wrapTextToLines(wrapText, maxCharsPerLine))

\* A call has returned after its hard-split loop ran more than once.
C28_Witness ==
  /\ wrapRun.pc = "done"
  /\ \E k \in 1..Len(wrapLines) : Len(wrapLines[k]) = maxCharsPerLine
  /\ Len(wrapLines) >= 3
  /\ IndexOf(wrapText, <<" ">>) < 0


(***************************************************************************)
(* C29                                                                     *)
(***************************************************************************)

\* The text without its spaces, and without any of its white space.
WithoutSpaces(s) == SelectSeq(s, LAMBDA c : c # " ")

WithoutWhitespace(s) == SelectSeq(s, LAMBDA c : ~IsWs(c))

\* The fragments that the pixel wrapper makes of the words of the text.
FragmentsOf(text) ==
  LET words == SplitSpaces(cleanText(text))
  IN  Concat([k \in 1..Len(words) |-> splitWordWithSoftBreaks(words[k])])

\* No character that is not a delimiter comes after a delimiter.
DelimitersLast(fragment) ==
  \A i, j \in 1..Len(fragment) :
    (i < j /\ IsSoftBreak(fragment[i])) => IsSoftBreak(fragment[j])

\* C29: the lines that wrapTextToLines and wrapTextToLinesPx return, put one
\* after the other and freed of their spaces, are the text freed of its
\* white space; the fragments the pixel wrapper breaks between are the text
\* in order, each with its delimiters at its end.
C29_NoCharacterLost ==
  /\ wrapLines # <<>> =>
       WithoutSpaces(Concat(wrapLines)) = WithoutWhitespace(wrapText)
  /\ wrapLinesPx # <<>> =>
       /\ WithoutSpaces(Concat(wrapLinesPx)) = WithoutWhitespace(wrapText)
       /\ Concat(FragmentsOf(wrapText)) = WithoutWhitespace(wrapText)
       /\ \A k \in 1..Len(FragmentsOf(wrapText)) :
            DelimitersLast(FragmentsOf(wrapText)[k])

\* Both wrappers have broken a word without a space: the pixel wrapper
\* after its delimiter, the character wrapper by the budget.
C29_Witness ==
  /\ IndexOf(wrapText, <<" ">>) < 0
  /\ Len(wrapLines) >= 2
  /\ Len(wrapLinesPx) = 2
  /\ wrapLinesPx[1] = <<"a", "-">>
  /\ wrapLinesPx[2] = <<"b">>


(***************************************************************************)
(* C30                                                                     *)
(***************************************************************************)

\* The lines of the text of the editor, tabs expanded, each trimmed, without
\* those that are left empty, in the order of the text.
SourceLabels ==
  LET split == SplitLines(ReplaceCrLf(ReplaceTabs(input, Indent(INDENT_SIZE))))
  IN  SelectSeq([i \in 1..Len(split) |-> Trim(split[i])], LAMBDA l : Len(l) > 0)

\* C30: the texts of flat, in the order of the array, are the trimmed
\* non-blank lines of the input in their order; and when no label looks like
\* a spacer, the lines of the rendering other than spacers and blank lines
\* are as many, each the label of the node at its place in flat behind
\* three characters of connector for each level of depth.
C30_SourceOrder ==
  /\ [k \in 1..Len(flat) |-> flat[k].text] = SourceLabels
  /\ NoBarOnlyLabel =>
       LET lines == AsciiLines
           at == LabelLineIdx
       IN  /\ Len(at) = Len(flat)
           /\ \A k \in 1..Len(flat) :
                Slice(lines[at[k]], 3 * flat[k].depth) = flat[k].text

\* Three lines with three labels: a root, a child of it written with a tab
\* and a second root.
C30_Witness ==
  /\ Len(flat) = 3
  /\ SourceLabels = << <<"a">>, <<"b">>, <<"a">> >>
  /\ flat[2].depth = 1
  /\ flat[3].depth = 0
  /\ \E i \in 1..Len(input) : input[i] = "\t"

====
